---- MODULE Spec2Model ----
(***************************************************************************)
(* Balloon position extraction, cross-hour merge and the hourly fetch      *)
(* pipeline of the balloon/hazard dashboard (utils/balloonData.ts,         *)
(* api/balloon.ts), and the hazard layer of components/BalloonMap.tsx:     *)
(* advisory styling, the filtered and ranked list, map navigation and the  *)
(* transient selection, and the two refresh hooks (hooks/useBalloonData.ts, *)
(* hooks/useAlertData.ts) with the advisory fetch (api/alert.ts).  Each    *)
(* behaviour exercises one entry point on one input drawn in Init; `entry` *)
(* names the entry point and `pc` its step.                                *)
(***************************************************************************)
EXTENDS Integers, Sequences, FiniteSets, TLC

VARIABLES
    entry,      \* which entry point this behaviour exercises
    pc,         \* position inside it
    value,      \* safeNumber: the argument
    coerced,    \* safeNumber: the returned value
    data,       \* extractBalloonPositions: the hourly snapshot
    hourIndex,  \* extractBalloonPositions: the hour index argument
    positions,  \* extractBalloonPositions: the returned array
    data24h,    \* extractAllBalloonPositions: the list of hourly snapshots
    hour,       \* extractAllBalloonPositions: hours already visited
    candidates, \* extractAllBalloonPositions: positions of the current hour
                \* not yet offered to the map
    seen,       \* every position offered to the map so far, in order
    balloonMap, \* extractAllBalloonPositions: the accumulating Map
    merged,     \* extractAllBalloonPositions: the returned array
    limited,    \* extractBalloonPositionsLimited: the returned array
    promises,   \* fetchLast24Hours: the promise of each fetchBalloonHour(i)
    arrival,    \* fetchLast24Hours: the hours in the order they settled
    run,        \* extractAllBalloonPositions: which call this is (0: none)
    prevData,   \* the argument of the previous call
    prevMerged, \* the array the previous call returned
    feature,    \* getAlertStyle: the argument
    style,      \* getAlertStyle: the returned style, or the exception raised
    alerts,     \* BalloonMap: the alerts prop
    validAlerts,  \* BalloonMap: the alerts with a supported geometry
    sortedAlerts, \* BalloonMap: validAlerts in list order
    drawn,      \* BalloonMap: the GeoJSON layers, one style per valid alert
    rows,       \* BalloonMap: the list rows, one severity color per row
    targetAlert,  \* MapController: the targetAlert prop
    navigation, \* MapController: the last map command issued
    selectedAlert, \* BalloonMap: the selectedAlert state
    timers,     \* the pending setTimeout callbacks: ms left, oldest first
    calls,      \* ms since each call of handleNavigateToAlert that no reset
                \* of the selection has followed yet
    idle,       \* ms since the last call of handleNavigateToAlert
    loading,    \* useBalloonData: the loading state
    loadingAlerts, \* useAlertData: the loadingAlerts state
    isMountedRef,  \* useAlertData: isMountedRef.current
    intervalRef,   \* the interval timer that is running (the effect instance
                   \* that set it), 0 for none; `id` in useBalloonData
    instance,   \* how many times the hook's effect has run
    loads,      \* the calls of load() that got to their fetch, in start
                \* order: the effect instance of each, and whether it settled
    journal,    \* the calls of load() that wrote state, in the order they did
    holder      \* the call of load() whose result the state holds (0: none)

coerceVars == <<value, coerced>>
extractVars == <<data, hourIndex, positions>>
loopVars == <<hour, candidates, seen, balloonMap>>
mergeVars == <<data24h, merged, limited>>
fetchVars == <<promises, arrival>>
runVars == <<run, prevData, prevMerged>>
styleVars == <<feature, style>>
renderVars == <<alerts, validAlerts, sortedAlerts, drawn, rows>>
navVars == <<targetAlert, navigation>>
selectVars == <<selectedAlert, timers, calls, idle>>
coreVars == <<coerceVars, extractVars, loopVars, mergeVars, fetchVars, runVars>>
hookVars ==
    <<loading, loadingAlerts, isMountedRef, intervalRef, instance, loads,
      journal, holder>>
uiVars == <<styleVars, renderVars, navVars, selectVars, hookVars>>
vars == <<entry, pc, coreVars, uiVars>>

----------------------------------------------------------------------------
(* Bounds of the model *)

\* longest string of the exhaustive string inputs of safeNumber
MaxStrLen == 3
\* longest raw sequence of the mixed-element snapshots
MaxLen == 3
\* largest small hour index passed to extractBalloonPositions
MaxHour == 1
\* longest run of candidates offered to the merge rule, and their hours
MaxCandidates == 3
MaxCandHour == 1
\* longest list of hourly snapshots handed to the merge
NumHours == 2
\* length of the bulk snapshot (two of them exceed the display cap)
BulkLen == 60
\* hourly fetches issued by fetchLast24Hours (24 in the source)
NumFetch == 3
\* longest raw alert list handed to BalloonMap
MaxAlerts == 3
\* most rings of a Polygon and polygons of a MultiPolygon
MaxRings == 2
\* most reset timers pending at once
MaxTimers == 2
\* calls of extractAllBalloonPositions in a row (one per render)
MaxRuns == 2

----------------------------------------------------------------------------
(* JavaScript values.  A finite number is the decimal m / 10^e (e may be   *)
(* negative), kept normalised: zero is 0 / 10^0 and no other m is          *)
(* divisible by 10.  A string is its sequence of characters; an object is  *)
(* a function from its keys to values.                                     *)

Null == [t |-> "null"]
Undefined == [t |-> "undefined"]
Bool(b) == [t |-> "boolean", b |-> b]
Finite(m, e) == [t |-> "number", k |-> "fin", m |-> m, e |-> e]

RECURSIVE Dec(_, _)
Dec(m, e) ==
    IF m = 0 THEN Finite(0, 0)
    ELSE IF m % 10 = 0 THEN Dec(m \div 10, e - 1)
    ELSE Finite(m, e)

Whole(n) == Dec(n, 0)
NaN == [t |-> "number", k |-> "nan", m |-> 0, e |-> 0]
PosInfinity == [t |-> "number", k |-> "inf", m |-> 1, e |-> 0]
NegInfinity == [t |-> "number", k |-> "inf", m |-> -1, e |-> 0]
Str(s) == [t |-> "string", s |-> s]
Arr(a) == [t |-> "array", a |-> a]
Obj(o) == [t |-> "object", o |-> o]

\* typeof v
TypeOf(v) == IF v.t \in {"null", "array", "object"} THEN "object" ELSE v.t

IsArray(v) == v.t = "array"

\* !v
Falsy(v) ==
    \/ v.t \in {"null", "undefined"}
    \/ v.t = "boolean" /\ ~v.b
    \/ v.t = "number" /\ (v.k = "nan" \/ (v.k = "fin" /\ v.m = 0))
    \/ v.t = "string" /\ v.s = <<>>

\* a ?? b
Nullish(a, b) == IF a.t \in {"null", "undefined"} THEN b ELSE a

isNaN(x) == x.k = "nan"
isFinite(x) == x.k = "fin"

RECURSIVE Pow10(_)
Pow10(n) == IF n = 0 THEN 1 ELSE 10 * Pow10(n - 1)

Abs(n) == IF n < 0 THEN -n ELSE n

RECURSIVE NumDigits(_)
NumDigits(n) == IF n < 10 THEN 1 ELSE 1 + NumDigits(n \div 10)

Max(a, b) == IF a >= b THEN a ELSE b
Min(a, b) == IF a <= b THEN a ELSE b

\* a / 10^ea <= b / 10^eb for positive mantissas: by order of magnitude
\* first, then on a common exponent
MagLe(a, ea, b, eb) ==
    LET oa == NumDigits(a) - ea
        ob == NumDigits(b) - eb
        E == Max(ea, eb)
    IN  IF oa # ob THEN oa < ob
        ELSE a * Pow10(E - ea) <= b * Pow10(E - eb)

\* x <= y on JavaScript numbers (false when either is NaN)
NumLe(x, y) ==
    IF isNaN(x) \/ isNaN(y) THEN FALSE
    ELSE IF x.k = "inf" THEN x.m = -1 \/ (y.k = "inf" /\ y.m = 1)
    ELSE IF y.k = "inf" THEN y.m = 1
    ELSE IF x.m <= 0 /\ y.m >= 0 THEN TRUE
    ELSE IF x.m >= 0 /\ y.m <= 0 THEN FALSE
    ELSE IF x.m > 0 THEN MagLe(x.m, x.e, y.m, y.e)
    ELSE MagLe(-y.m, y.e, -x.m, x.e)

\* x < y on JavaScript numbers (false when either is NaN)
NumLt(x, y) == NumLe(x, y) /\ ~NumLe(y, x)

----------------------------------------------------------------------------
(* parseFloat: skips leading white space, then reads the longest prefix    *)
(* that is a decimal literal (sign, "Infinity", digits, fraction,          *)
(* exponent); NaN when there is none.                                      *)

IsDigit(c) == c \in {"0", "1", "2", "3", "4", "5", "6", "7", "8", "9"}

DigitVal(c) ==
    CASE c = "0" -> 0 [] c = "1" -> 1 [] c = "2" -> 2 [] c = "3" -> 3
      [] c = "4" -> 4 [] c = "5" -> 5 [] c = "6" -> 6 [] c = "7" -> 7
      [] c = "8" -> 8 [] c = "9" -> 9

Drop(s, n) == SubSeq(s, n + 1, Len(s))

StartsWith(s, p) == Len(s) >= Len(p) /\ SubSeq(s, 1, Len(p)) = p

RECURSIVE SkipWhiteSpace(_)
SkipWhiteSpace(s) ==
    IF s # <<>> /\ Head(s) = " " THEN SkipWhiteSpace(Tail(s)) ELSE s

RECURSIVE CountDigits(_)
CountDigits(s) ==
    IF s # <<>> /\ IsDigit(Head(s)) THEN 1 + CountDigits(Tail(s)) ELSE 0

RECURSIVE DigitsToInt(_)
DigitsToInt(s) ==
    IF s = <<>> THEN 0
    ELSE 10 * DigitsToInt(SubSeq(s, 1, Len(s) - 1)) + DigitVal(s[Len(s)])

\* The double nearest to m / 10^scale: infinite above the double range
\* (about 1.8e308), zero below it (about 5e-324).
MakeNumber(m, scale) ==
    IF m = 0 THEN Dec(0, 0)
    ELSE IF NumDigits(Abs(m)) - scale > 309
         THEN (IF m < 0 THEN NegInfinity ELSE PosInfinity)
    ELSE IF scale - NumDigits(Abs(m)) > 324 THEN Dec(0, 0)
    ELSE Dec(m, scale)

InfinityWord == <<"I", "n", "f", "i", "n", "i", "t", "y">>

\* the exponent part x (what follows "e"): its value, 0 when it has no digit
ExponentValue(x) ==
    LET xd == IF x # <<>> /\ Head(x) \in {"+", "-"} THEN Tail(x) ELSE x
        xval == DigitsToInt(SubSeq(xd, 1, CountDigits(xd)))
    IN  IF x # <<>> /\ Head(x) = "-" THEN -xval ELSE xval

\* the exponent of the literal whose mantissa ends where `rest` starts
ExponentOf(rest) ==
    IF rest # <<>> /\ Head(rest) \in {"e", "E"}
    THEN ExponentValue(Tail(rest)) ELSE 0

\* u: the literal without its sign, ni: the digits of its integer part,
\* nf: the digits of its fraction (0 when it has no ".")
ParseDigits(u, neg, ni, nf, hasDot) ==
    LET mant == DigitsToInt(SubSeq(u, 1, ni) \o SubSeq(u, ni + 2, ni + 1 + nf))
        exp == ExponentOf(Drop(u, IF hasDot THEN ni + 1 + nf ELSE ni))
    IN  IF ni + nf = 0 THEN NaN
        ELSE MakeNumber(IF neg THEN -mant ELSE mant, nf - exp)

ParseFraction(u, neg, ni, afterInt) ==
    IF afterInt # <<>> /\ Head(afterInt) = "."
    THEN ParseDigits(u, neg, ni, CountDigits(Tail(afterInt)), TRUE)
    ELSE ParseDigits(u, neg, ni, 0, FALSE)

ParseUnsigned(u, neg) ==
    IF StartsWith(u, InfinityWord)
    THEN (IF neg THEN NegInfinity ELSE PosInfinity)
    ELSE ParseFraction(u, neg, CountDigits(u), Drop(u, CountDigits(u)))

ParseSigned(t) ==
    IF t # <<>> /\ Head(t) \in {"+", "-"}
    THEN ParseUnsigned(Tail(t), Head(t) = "-")
    ELSE ParseUnsigned(t, FALSE)

parseFloat(s) == ParseSigned(SkipWhiteSpace(s))

----------------------------------------------------------------------------
(* Numeric coercion *)

safeNumber(v) ==
    IF v.t = "number" /\ ~isNaN(v) THEN v
    ELSE IF v.t = "string"
         THEN LET parsed == parseFloat(v.s)
              IN  IF ~isNaN(parsed) /\ isFinite(parsed) THEN parsed ELSE Null
    ELSE Null

----------------------------------------------------------------------------
(* Position extraction (utils/balloonData.ts) *)

LAT_MIN == -90
LAT_MAX == 90
LON_MIN == -180
LON_MAX == 180

\* item?.[key] for a non-null item: an own property, or undefined
Get(item, key) ==
    IF item.t = "object"
    THEN (IF key \in DOMAIN item.o THEN item.o[key] ELSE Undefined)
    ELSE IF item.t = "array"
    THEN (IF key = "0" /\ Len(item.a) >= 1 THEN item.a[1]
          ELSE IF key = "1" /\ Len(item.a) >= 2 THEN item.a[2]
          ELSE IF key = "2" /\ Len(item.a) >= 3 THEN item.a[3]
          ELSE Undefined)
    ELSE Undefined

\* Probe falling back to the next key when a value does not coerce
ProbeParseable(item, keys) ==
    LET usable == {k \in 1..4 : safeNumber(Get(item, keys[k])) # Null}
    IN  IF usable = {} THEN Undefined
        ELSE Get(item, keys[CHOOSE k \in usable : \A j \in usable : k <= j])

\* a ?? b ?? c ?? d over the properties of item
Probe(item, keys) ==
    Nullish(Nullish(Nullish(Get(item, keys[1]), Get(item, keys[2])),
                    Get(item, keys[3])),
            Get(item, keys[4]))

LatKeys == <<"lat", "latitude", "y", "0">>
LonKeys == <<"lon", "lng", "longitude", "1">>
AltKeys == <<"alt", "altitude", "z", "2">>

\* lat, lon, alt of one element, each a number or null
ItemCoords(item) ==
    IF IsArray(item) /\ Len(item.a) >= 2
    THEN [lat |-> safeNumber(item.a[1]),
          lon |-> safeNumber(item.a[2]),
          alt |-> IF Len(item.a) >= 3 THEN safeNumber(item.a[3]) ELSE Null]
    ELSE IF ~Falsy(item) /\ TypeOf(item) = "object"
    THEN [lat |-> safeNumber(Probe(item, LatKeys)),
          lon |-> safeNumber(Probe(item, LonKeys)),
          alt |-> safeNumber(Probe(item, AltKeys))]
    ELSE [lat |-> Null, lon |-> Null, alt |-> Null]

\* Accepted with the bounds exclusive
AcceptedStrict(c) ==
    /\ c.lat # Null /\ c.lon # Null
    /\ NumLt(Whole(LAT_MIN), c.lat) /\ NumLt(c.lat, Whole(LAT_MAX))
    /\ NumLt(Whole(LON_MIN), c.lon) /\ NumLt(c.lon, Whole(LON_MAX))

\* the test that admits an element
Accepted(c) ==
    /\ c.lat # Null /\ c.lon # Null
    /\ NumLe(Whole(LAT_MIN), c.lat) /\ NumLe(c.lat, Whole(LAT_MAX))
    /\ NumLe(Whole(LON_MIN), c.lon) /\ NumLe(c.lon, Whole(LON_MAX))

\* String(n) for an integer n
RECURSIVE DecStr(_)
DecStr(n) ==
    IF n < 0 THEN <<"-">> \o DecStr(-n)
    ELSE IF n < 10 THEN <<SubSeq(<<"0", "1", "2", "3", "4", "5", "6", "7",
                                   "8", "9">>, n + 1, n + 1)[1]>>
    ELSE DecStr(n \div 10) \o DecStr(n % 10)

\* `balloon-${h}-${idx}`
FormatId(h, idx) == <<"balloon-">> \o DecStr(h) \o <<"-">> \o DecStr(idx)

MakePosition(c, h, idx) ==
    [id |-> FormatId(h, idx), lat |-> c.lat, lon |-> c.lon,
     altitude |-> Nullish(c.alt, Undefined), hourIndex |-> Whole(h)]

\* ForEachItem numbering the positions by their place in the output
ForEachItemDense(raw, h) ==
    LET pushedIdx == SelectSeq([n \in 1..Len(raw) |-> n],
                               LAMBDA n : Accepted(ItemCoords(raw[n])))
    IN  [k \in 1..Len(pushedIdx) |->
            MakePosition(ItemCoords(raw[pushedIdx[k]]), h, k - 1)]

\* ForEachItem reading a property of a null element without a guard: the
\* TypeError ends the loop and the catch returns what was pushed before it
ForEachItemAbort(raw, h) ==
    LET nulls == {n \in 1..Len(raw) : raw[n] \in {Null, Undefined}}
        stop == IF nulls = {} THEN Len(raw) + 1
                ELSE CHOOSE n \in nulls : \A o \in nulls : n <= o
        pushedIdx == SelectSeq([n \in 1..(stop - 1) |-> n],
                               LAMBDA n : Accepted(ItemCoords(raw[n])))
    IN  [k \in 1..Len(pushedIdx) |->
            MakePosition(ItemCoords(raw[pushedIdx[k]]), h, pushedIdx[k] - 1)]

\* raw.forEach((item, idx) => ...): the positions pushed, in order; the
\* callback reads nothing an earlier call wrote but the array it pushes to
ForEachItem(raw, h) ==
    LET pushedIdx == SelectSeq([n \in 1..Len(raw) |-> n],
                               LAMBDA n : Accepted(ItemCoords(raw[n])))
    IN  [k \in 1..Len(pushedIdx) |->
            MakePosition(ItemCoords(raw[pushedIdx[k]]), h, pushedIdx[k] - 1)]

\* RawSequence falling back to any member that is a sequence
RawSequenceAnyArray(d) ==
    IF IsArray(d) THEN d.a
    ELSE IF d.t = "object" /\ \E key \in DOMAIN d.o : IsArray(d.o[key])
         THEN d.o[CHOOSE key \in DOMAIN d.o : IsArray(d.o[key])].a
    ELSE <<>>

\* RawSequence trying `data` before `balloons`
RawSequenceDataFirst(d) ==
    IF IsArray(d) THEN d.a
    ELSE IF ~Falsy(Get(d, "data")) /\ IsArray(Get(d, "data"))
         THEN Get(d, "data").a
    ELSE IF ~Falsy(Get(d, "balloons")) /\ IsArray(Get(d, "balloons"))
         THEN Get(d, "balloons").a
    ELSE <<>>

\* the sequence whose elements are read: data, data.balloons or data.data
RawSequence(d) ==
    IF IsArray(d) THEN d.a
    ELSE IF ~Falsy(Get(d, "balloons")) /\ IsArray(Get(d, "balloons"))
         THEN Get(d, "balloons").a
    ELSE IF ~Falsy(Get(d, "data")) /\ IsArray(Get(d, "data"))
         THEN Get(d, "data").a
    ELSE <<>>

extractBalloonPositions(d, h) ==
    IF Falsy(d) \/ TypeOf(d) # "object" THEN <<>>
    ELSE ForEachItem(RawSequence(d), h)

----------------------------------------------------------------------------
(* Cross-hour merge (utils/balloonData.ts).  A Map is the sequence of its  *)
(* entries in insertion order; set() on a present key keeps its place.     *)

DEFAULT_HOUR == 24
TEST_MODE == TRUE
MAX_BALLOONS == 100

MapHas(m, k) == \E i \in 1..Len(m) : m[i].key = k

MapGet(m, k) ==
    IF MapHas(m, k) THEN m[CHOOSE i \in 1..Len(m) : m[i].key = k].value
    ELSE Undefined

\* MapSet putting a new key first
MapSetFront(m, k, v) ==
    IF MapHas(m, k)
    THEN [i \in 1..Len(m) |->
            IF m[i].key = k THEN [key |-> k, value |-> v] ELSE m[i]]
    ELSE <<[key |-> k, value |-> v]>> \o m

MapSet(m, k, v) ==
    IF MapHas(m, k)
    THEN [i \in 1..Len(m) |->
            IF m[i].key = k THEN [key |-> k, value |-> v] ELSE m[i]]
    ELSE Append(m, [key |-> k, value |-> v])

MapValues(m) == [i \in 1..Len(m) |-> m[i].value]

\* p?.hourIndex ?? 24
HourOf(p) ==
    Nullish(IF p = Undefined THEN Undefined ELSE p.hourIndex,
            Whole(DEFAULT_HOUR))

\* MergeCandidate replacing on an equal hourIndex too
MergeCandidateOnTie(m, pos) ==
    IF ~MapHas(m, pos.id) \/ NumLe(HourOf(pos), HourOf(MapGet(m, pos.id)))
    THEN MapSet(m, pos.id, pos)
    ELSE m

\* the callback of positions.forEach
MergeCandidate(m, pos) ==
    IF ~MapHas(m, pos.id) \/ NumLt(HourOf(pos), HourOf(MapGet(m, pos.id)))
    THEN MapSet(m, pos.id, pos)
    ELSE m

\* all.slice(0, n)
Slice(all, n) == SubSeq(all, 1, Min(Len(all), n))

\* what extractBalloonPositionsLimited returns, given the array
\* extractAllBalloonPositions returned to it
extractBalloonPositionsLimited(allPositions) ==
    IF TEST_MODE THEN Slice(allPositions, MAX_BALLOONS) ELSE allPositions

----------------------------------------------------------------------------
(* Hourly fetch (api/balloon.ts) *)

\* results.filter(r => r !== null)
FilterNotNull(results) == SelectSeq(results, LAMBDA r : r # Null)

\* the array Promise.all resolves to: each promise's value, in call order
PromiseAllValues(ps) == [i \in 1..Len(ps) |-> ps[i].value]

----------------------------------------------------------------------------
(* Inputs *)

SeqsUpTo(S, n) == UNION {[1..k -> S] : k \in 0..n}

Alphabet == {"1", "9", ".", "-", "e", "a"}

RECURSIVE StringsUpTo(_)
StringsUpTo(n) ==
    IF n = 0 THEN {<<>>}
    ELSE LET shorter == StringsUpTo(n - 1)
         IN  shorter \cup {Append(s, c) : s \in shorter, c \in Alphabet}

S_12_5 == Str(<<"1", "2", ".", "5">>)
S_abc == Str(<<"a", "b", "c">>)

NamedStrings ==
    { S_12_5.s, S_abc.s, InfinityWord,
      <<"-">> \o InfinityWord, <<"1", "e", "9", "9", "9">>,
      <<"N", "a", "N">>, <<" ", "9", "0">>, <<"+", "7">>,
      <<"1", "2", "a", "b", "c">>, <<"1", "e", "-", "1">>,
      <<"-", "9", "0", ".", "0">>, <<"1", "8", "0">>, <<"5", ".">> }

CoerceInputs ==
    {Str(s) : s \in StringsUpTo(MaxStrLen) \cup NamedStrings}
    \cup {Whole(0), Whole(-90), Dec(125, 1), NaN, PosInfinity, NegInfinity}
    \cup {Null, Undefined, Bool(TRUE), Bool(FALSE)}
    \cup {Arr(<<>>), Arr(<<Whole(1)>>), Obj(<<>>), Obj([lat |-> Whole(1)])}

\* elements that are mixed freely in raw sequences
CoreElems ==
    { Arr(<<Whole(90), Whole(180)>>),
      Arr(<<Whole(91), Whole(0)>>),
      Arr(<<S_12_5, Whole(-180), S_abc>>),
      Null,
      Obj([lat |-> Whole(1), lon |-> Whole(2)]) }

LatSamples ==
    {Whole(-91), Whole(-90), Whole(90), Whole(91), Dec(901, 1), S_12_5,
     S_abc, Null, PosInfinity, NegInfinity, Bool(TRUE)}
LonSamples ==
    {Whole(-181), Whole(-180), Whole(180), Whole(181), Dec(-1801, 1),
     Str(<<"1", "8", "0">>), Undefined, PosInfinity}
AltSamples ==
    {Whole(5), Dec(125, 1), S_12_5, S_abc, Null, PosInfinity, Arr(<<>>)}

\* elements that occur alone in a raw sequence
SingleElems ==
    {Arr(<<la, lo>>) : la \in LatSamples, lo \in LonSamples}
    \cup {Arr(<<Whole(0), Whole(0), al>>) : al \in AltSamples}
    \cup {Arr(<<Whole(91), Whole(0), al>>) : al \in AltSamples}
    \cup { Arr(<<>>), Arr(<<Whole(1)>>), Arr(<<Whole(-90), Dec(-1795, 1)>>),
           Arr(<<Whole(1), Whole(2), Whole(3), Whole(4)>>),
           S_abc, Bool(TRUE), Obj(<<>>),
           Obj([lat |-> Whole(1)]),
           Obj([latitude |-> S_12_5, lng |-> Whole(7), altitude |-> Whole(3)]),
           Obj([y |-> Whole(1), longitude |-> Whole(2), z |-> S_abc]),
           Obj(("0" :> Whole(1)) @@ ("1" :> Whole(2)) @@ ("2" :> Whole(3))),
           Obj([lat |-> S_abc, latitude |-> Whole(5), lon |-> Whole(1)]),
           Obj([lat |-> Null, latitude |-> Whole(5), lon |-> Whole(1)]),
           Obj([lat |-> Whole(95), lon |-> Whole(1)]),
           Obj([lat |-> Undefined, y |-> Whole(3), lng |-> Null,
                longitude |-> Whole(4), alt |-> Null, z |-> Whole(9)]),
           Obj([lat |-> Whole(1), lon |-> S_abc, lng |-> Whole(5)]),
           Obj([lat |-> Whole(1), lon |-> Whole(2), alt |-> S_abc,
                altitude |-> Whole(5)]) }

RawSeqs == SeqsUpTo(CoreElems, MaxLen) \cup {<<e>> : e \in SingleElems}

\* the sequence under `data` when `balloons` is a sequence too
OtherSeq == <<Arr(<<Whole(10), Whole(20)>>)>>

\* the snapshots that carry the raw sequence r
Shapes(r) ==
    { Arr(r),
      Obj([balloons |-> Arr(r)]),
      Obj([data |-> Arr(r)]),
      Obj([balloons |-> Arr(r), data |-> Arr(OtherSeq)]),
      Obj([balloons |-> Whole(5), data |-> Arr(r)]) }

\* snapshots with no raw sequence
NoSequence ==
    { Null, Undefined, Whole(0), Whole(5), NaN, Str(<<>>), S_abc,
      Bool(TRUE), Bool(FALSE), Obj(<<>>), Obj([balloons |-> Whole(5)]),
      Obj([data |-> Null]), Obj([balloons |-> Obj(<<>>), data |-> S_abc]),
      Obj([positions |-> Arr(OtherSeq)]) }

ExtractInputs == UNION {Shapes(r) : r \in RawSeqs} \cup NoSequence

HourInputs == (0..MaxHour) \cup {23}

X_ID == FormatId(0, 0)
Y_ID == FormatId(0, 1)

\* positions as the merge rule may be offered them, ids colliding at will
CandidateSet ==
    { [id |-> i, lat |-> Whole(la), lon |-> Whole(0), altitude |-> Undefined,
       hourIndex |-> Whole(h)] :
        i \in {X_ID, Y_ID}, la \in {1, 2}, h \in 0..MaxCandHour }

Bulk == Arr([i \in 1..BulkLen |-> Arr(<<Whole(i - 30), Whole(2 * i)>>)])

MergeSnapshots ==
    { Null, Undefined, S_abc, Arr(<<>>), Obj([positions |-> Arr(OtherSeq)]),
      Arr(<<Arr(<<Whole(90), Whole(180)>>)>>),
      Arr(<<Arr(<<Whole(91), Whole(0)>>), Arr(<<Whole(0), Whole(0), Whole(5)>>),
            Whole(5), Arr(<<S_12_5, Whole(-180), S_abc>>)>>),
      Obj([balloons |-> Arr(<<Arr(<<Whole(1), Whole(2)>>),
                              Arr(<<Whole(3), Whole(4)>>)>>)]) }

\* lists long enough for the display cap to cut
BulkLists ==
    { <<Bulk>>, <<Bulk, Bulk>>, <<Bulk, Null, Bulk>>,
      <<Arr(<<Arr(<<Whole(90), Whole(180)>>)>>), Bulk>> }

\* what a refresh may set data24h to between two renders
RefreshLists ==
    { <<Obj([balloons |-> Arr(<<Arr(<<Whole(1), Whole(2)>>),
                                Arr(<<Whole(3), Whole(4)>>)>>)])>> }

Payloads ==
    { Arr(<<>>), Arr(<<Arr(<<Whole(10), Whole(20)>>)>>),
      Arr(<<Arr(<<Whole(1), Whole(2)>>), Arr(<<Whole(91), Whole(0)>>),
            Arr(<<Whole(3), Whole(4), Whole(5)>>)>>) }

Responses ==
    {[ok |-> TRUE, json |-> p] : p \in Payloads}
    \cup {[ok |-> FALSE, json |-> Obj(<<>>)]}

\* what fetchBalloonHour returns for a response
fetchBalloonHour(resp) == IF ~resp.ok THEN Null ELSE resp.json

\* what fetchLast24Hours returns once every promise has settled
fetchLast24Hours(ps) == FilterNotNull(PromiseAllValues(ps))

----------------------------------------------------------------------------
(* Hazard styling (components/BalloonMap.tsx) *)

\* an exception raised, where a value would have been returned
Raised == [t |-> "raised"]

UPPER ==
    <<"A", "B", "C", "D", "E", "F", "G", "H", "I", "J", "K", "L", "M",
      "N", "O", "P", "Q", "R", "S", "T", "U", "V", "W", "X", "Y", "Z">>
LOWER ==
    <<"a", "b", "c", "d", "e", "f", "g", "h", "i", "j", "k", "l", "m",
      "n", "o", "p", "q", "r", "s", "t", "u", "v", "w", "x", "y", "z">>

ToLowerChar(c) ==
    IF \E i \in 1..Len(UPPER) : UPPER[i] = c
    THEN LOWER[CHOOSE i \in 1..Len(UPPER) : UPPER[i] = c]
    ELSE c

\* v.toLowerCase(): a TypeError unless v is a string
toLowerCase(v) ==
    IF v.t = "string" THEN Str([i \in 1..Len(v.s) |-> ToLowerChar(v.s[i])])
    ELSE Raised

\* a || b
OrElse(a, b) == IF Falsy(a) THEN b ELSE a

\* feature?.properties?.[key]
PropertyOf(f, key) == Get(Get(f, "properties"), key)

S_empty == Str(<<>>)
S_extreme == Str(<<"e", "x", "t", "r", "e", "m", "e">>)
S_severe == Str(<<"s", "e", "v", "e", "r", "e">>)
S_moderate == Str(<<"m", "o", "d", "e", "r", "a", "t", "e">>)
S_minor == Str(<<"m", "i", "n", "o", "r">>)
S_unknown == Str(<<"u", "n", "k", "n", "o", "w", "n">>)
S_immediate == Str(<<"i", "m", "m", "e", "d", "i", "a", "t", "e">>)
S_expected == Str(<<"e", "x", "p", "e", "c", "t", "e", "d">>)
S_Unknown == Str(<<"U", "n", "k", "n", "o", "w", "n">>)

\* a CSS color string
Color(hex) == [t |-> "color", hex |-> hex]

DARK_RED == Color("#C92A2A")
ORANGE == Color("#F76707")
YELLOW == Color("#FFD43B")
GREEN == Color("#51CF66")
DEFAULT_RED == Color("#FF6B6B")
SLATE == Color("#64748b")

\* AlertColor looking at the urgency only after the severity
AlertColorSeverityFirst(severity, urgency) ==
    IF severity = S_extreme THEN DARK_RED
    ELSE IF severity = S_severe THEN ORANGE
    ELSE IF severity = S_moderate THEN YELLOW
    ELSE IF severity = S_minor \/ severity = S_unknown THEN GREEN
    ELSE IF urgency = S_immediate THEN DARK_RED
    ELSE IF urgency = S_expected THEN ORANGE
    ELSE DEFAULT_RED

\* the if / else-if chain of getAlertStyle on the lower-cased fields
AlertColor(severity, urgency) ==
    IF severity = S_extreme \/ urgency = S_immediate THEN DARK_RED
    ELSE IF severity = S_severe THEN ORANGE
    ELSE IF severity = S_moderate THEN YELLOW
    ELSE IF severity = S_minor \/ severity = S_unknown THEN GREEN
    ELSE IF urgency = S_expected THEN ORANGE
    ELSE DEFAULT_RED

AlertStyleOf(severity, urgency) ==
    IF severity = Raised \/ urgency = Raised THEN Raised
    ELSE [fillColor |-> AlertColor(severity, urgency),
          color |-> AlertColor(severity, urgency),
          weight |-> 5,
          dashArray |-> IF severity = S_extreme \/ urgency = S_immediate
                        THEN "10, 5" ELSE "undefined"]

getAlertStyle(f) ==
    AlertStyleOf(toLowerCase(OrElse(PropertyOf(f, "severity"), S_empty)),
                 toLowerCase(OrElse(PropertyOf(f, "urgency"), S_empty)))

SeverityColorOf(severityLower) ==
    IF severityLower = Raised THEN Raised
    ELSE IF severityLower = S_extreme THEN DARK_RED
    ELSE IF severityLower = S_severe THEN ORANGE
    ELSE IF severityLower = S_moderate THEN YELLOW
    ELSE IF severityLower = S_minor \/ severityLower = S_unknown THEN GREEN
    ELSE SLATE

getSeverityColor(severity) == SeverityColorOf(toLowerCase(severity))

(* Hazard filtering and list order (components/BalloonMap.tsx) *)

S_Point == Str(<<"P", "o", "i", "n", "t">>)
S_Polygon == Str(<<"P", "o", "l", "y", "g", "o", "n">>)
S_MultiPolygon == Str(<<"M", "u", "l", "t", "i", "P", "o", "l", "y", "g", "o", "n">>)

\* IsValidGeometry accepting any geometry that has a type
IsValidGeometryAnyType(geom) ==
    ~Falsy(geom) /\ ~Falsy(Get(geom, "type"))

\* geom && (geom.type === 'Polygon' || ... 'MultiPolygon' || ... 'Point')
IsValidGeometry(geom) ==
    ~Falsy(geom) /\ Get(geom, "type") \in {S_Polygon, S_MultiPolygon, S_Point}

\* alerts.filter(alert => ...)
validAlertsOf(as) ==
    Arr(SelectSeq(as, LAMBDA a : IsValidGeometry(Get(a, "geometry"))))

UNRANKED == 99

\* severityOrder[key] ?? 99
SeverityRank(key) ==
    IF key = S_extreme THEN 0
    ELSE IF key = S_severe THEN 1
    ELSE IF key = S_moderate THEN 2
    ELSE IF key = S_minor THEN 3
    ELSE IF key = S_unknown THEN 4
    ELSE UNRANKED

\* (a?.properties?.severity || 'unknown').toLowerCase()
SortSeverity(a) ==
    toLowerCase(OrElse(PropertyOf(a, "severity"), S_unknown))

\* what the comparator computes for one of its arguments
SortKey(a) == SeverityRank(SortSeverity(a))

WithRank(list, r) == SelectSeq(list, LAMBDA a : SortKey(a) = r)

\* [...validAlerts].sort(comparator): the sort is stable, and calls the
\* comparator on every element of a list of two or more
sortedAlertsOf(valid) ==
    IF Len(valid) < 2 THEN Arr(valid)
    ELSE IF \E i \in 1..Len(valid) : SortSeverity(valid[i]) = Raised
    THEN Raised
    ELSE Arr(WithRank(valid, 0) \o WithRank(valid, 1) \o WithRank(valid, 2)
             \o WithRank(valid, 3) \o WithRank(valid, 4)
             \o WithRank(valid, UNRANKED))

\* const severityColor = getSeverityColor(props.severity || 'Unknown')
RowColor(a) == getSeverityColor(OrElse(PropertyOf(a, "severity"), S_Unknown))

\* sortedAlerts.map(...): the list rows
rowsOf(sorted) ==
    IF \E i \in 1..Len(sorted) : RowColor(sorted[i]) = Raised THEN Raised
    ELSE Arr([i \in 1..Len(sorted) |-> RowColor(sorted[i])])

\* validAlerts.map(...): the GeoJSON layers
drawnOf(valid) ==
    IF \E i \in 1..Len(valid) : getAlertStyle(valid[i]) = Raised THEN Raised
    ELSE Arr([i \in 1..Len(valid) |->
                [alert |-> valid[i], style |-> getAlertStyle(valid[i])]])

(* Map navigation (components/BalloonMap.tsx, MapController) *)

DEFAULT_ZOOM == 10
MAX_ZOOM == 12
PADDING == 100

\* the effect returned without calling the map
NoNavigation == [t |-> "none"]

\* v[key]: a TypeError when v is null or undefined (or already raised)
At(v, key) ==
    IF v.t \in {"null", "undefined", "raised"} THEN Raised ELSE Get(v, key)

\* the integer a whole JavaScript number stands for
IntValue(v) == v.m * Pow10(-v.e)

IsWhole(v) == v.t = "number" /\ v.k = "fin" /\ v.e <= 0

\* a [lon, lat] pair of numbers
IsVertex(c) == IsArray(c) /\ Len(c.a) >= 2 /\ IsWhole(c.a[1]) /\ IsWhole(c.a[2])

RECURSIVE GCD(_, _)
GCD(a, b) == IF b = 0 THEN a ELSE GCD(b, a % b)

\* a / b for integers, b > 0, as a fraction in lowest terms
Quot(a, b) ==
    [n |-> a \div GCD(Abs(a), b), d |-> b \div GCD(Abs(a), b)]

\* coords.reduce((sum, coord) => sum + coord[k - 1], 0)
RECURSIVE RingSum(_, _)
RingSum(coords, k) ==
    IF coords = <<>> THEN 0
    ELSE IntValue(Head(coords).a[k]) + RingSum(Tail(coords), k)

\* new LatLng(latSum / coords.length, lonSum / coords.length)
RingCenter(coords) ==
    [lat |-> Quot(RingSum(coords, 2), Len(coords)),
     lon |-> Quot(RingSum(coords, 1), Len(coords))]

\* new LatLngBounds(coords.map(coord => [coord[1], coord[0]]))
LatLngBounds(coords) ==
    LET lats == {IntValue(coords[i].a[2]) : i \in 1..Len(coords)}
        lons == {IntValue(coords[i].a[1]) : i \in 1..Len(coords)}
    IN  [south |-> CHOOSE x \in lats : \A y \in lats : x <= y,
         north |-> CHOOSE x \in lats : \A y \in lats : x >= y,
         west |-> CHOOSE x \in lons : \A y \in lons : x <= y,
         east |-> CHOOSE x \in lons : \A y \in lons : x >= y]

\* the Polygon / MultiPolygon branch once coords is taken: reduce raises on
\* a value that is no array, a vertex that is null or has no numbers and an
\* empty ring give a NaN center, on which new LatLng raises
FlyToRing(coords) ==
    IF ~IsArray(coords) THEN Raised
    ELSE IF coords.a = <<>> THEN Raised
    ELSE IF \E i \in 1..Len(coords.a) : ~IsVertex(coords.a[i]) THEN Raised
    ELSE [t |-> "flyToBounds", center |-> RingCenter(coords.a),
          bounds |-> LatLngBounds(coords.a),
          padding |-> PADDING, maxZoom |-> MAX_ZOOM]

\* FlyToPoint taking coordinates[0] for the latitude
FlyToPointSwapped(lat, lng) ==
    IF lat.t # "number" \/ lng.t # "number" THEN Raised
    ELSE IF isNaN(lat) \/ isNaN(lng) THEN Raised
    ELSE [t |-> "flyTo", center |-> [lat |-> lng, lon |-> lat],
          zoom |-> DEFAULT_ZOOM]

\* center = new LatLng(lat, lng), then map.flyTo(center, zoom): new LatLng
\* raises when a coordinate is missing or NaN
FlyToPoint(lat, lng) ==
    IF lat.t # "number" \/ lng.t # "number" THEN Raised
    ELSE IF isNaN(lat) \/ isNaN(lng) THEN Raised
    ELSE [t |-> "flyTo", center |-> [lat |-> lat, lon |-> lng],
          zoom |-> DEFAULT_ZOOM]

\* PolygonRing taking the last ring
PolygonRingLast(coordinates) ==
    IF IsArray(coordinates) /\ coordinates.a # <<>>
    THEN coordinates.a[Len(coordinates.a)]
    ELSE At(coordinates, "0")

\* geom.coordinates[0]
PolygonRing(coordinates) == At(coordinates, "0")

\* geom.coordinates[0][0]
MultiPolygonRing(coordinates) == At(At(coordinates, "0"), "0")

\* the if / else-if chain over geom.type
NavigateTo(type, coordinates) ==
    IF type = S_Point
    THEN FlyToPoint(At(coordinates, "1"), At(coordinates, "0"))
    ELSE IF type = S_Polygon /\ PolygonRing(coordinates) = Raised THEN Raised
    ELSE IF type = S_Polygon /\ ~Falsy(PolygonRing(coordinates))
    THEN FlyToRing(PolygonRing(coordinates))
    ELSE IF type = S_MultiPolygon
    THEN FlyToRing(MultiPolygonRing(coordinates))
    ELSE NoNavigation

\* the effect of MapController for a targetAlert
MapControllerEffect(target) ==
    IF Falsy(target) \/ Falsy(Get(target, "geometry")) THEN NoNavigation
    ELSE NavigateTo(Get(Get(target, "geometry"), "type"),
                    Get(Get(target, "geometry"), "coordinates"))

(* Inputs of the hazard entry points *)

\* a field left out of an object under construction
Absent == [t |-> "absent"]

\* the object with the given fields, those that are Absent left out
ObjOf(fields) ==
    Obj([k \in {f \in DOMAIN fields : fields[f] # Absent} |-> fields[k]])

Feature(sev, urg, geom) ==
    ObjOf([properties |-> ObjOf([severity |-> sev, urgency |-> urg]),
           geometry |-> geom])

SeverityValues ==
    { Absent, Null, S_empty, S_extreme, Str(<<"E", "x", "t", "r", "e", "m", "e">>), Str(<<"E", "X", "T", "R", "E", "M", "E">>), Str(<<"S", "e", "v", "e", "r", "e">>), Str(<<"M", "o", "d", "e", "r", "a", "t", "e">>),
      Str(<<"M", "i", "n", "o", "r">>), S_Unknown, Str(<<"L", "o", "w">>), Whole(5), Bool(TRUE) }

UrgencyValues ==
    { Absent, Str(<<"I", "m", "m", "e", "d", "i", "a", "t", "e">>), Str(<<"I", "M", "M", "E", "D", "I", "A", "T", "E">>), Str(<<"E", "x", "p", "e", "c", "t", "e", "d">>), Str(<<"F", "u", "t", "u", "r", "e">>), S_Unknown, Whole(5) }

\* the ring of the worked example, as (lon, lat) pairs
SquareRing ==
    Arr(<<Arr(<<Whole(0), Whole(0)>>), Arr(<<Whole(0), Whole(2)>>),
          Arr(<<Whole(2), Whole(2)>>), Arr(<<Whole(2), Whole(0)>>)>>)

PointGeom == Obj([type |-> S_Point,
                  coordinates |-> Arr(<<Whole(-97), Whole(35)>>)])
PolygonGeom == Obj([type |-> S_Polygon, coordinates |-> Arr(<<SquareRing>>)])
MultiPolygonGeom ==
    Obj([type |-> S_MultiPolygon,
         coordinates |-> Arr(<<Arr(<<SquareRing>>)>>)])
LineStringGeom ==
    Obj([type |-> Str(<<"L", "i", "n", "e", "S", "t", "r", "i", "n", "g">>),
         coordinates |-> Arr(<<Arr(<<Whole(0), Whole(0)>>),
                               Arr(<<Whole(1), Whole(1)>>)>>)])

\* the advisories that raw alert lists are made of
AlertSamples ==
    { Feature(Str(<<"E", "x", "t", "r", "e", "m", "e">>), Absent, PointGeom),
      Feature(Str(<<"S", "e", "v", "e", "r", "e">>), Str(<<"E", "x", "p", "e", "c", "t", "e", "d">>), PolygonGeom),
      Feature(Str(<<"M", "i", "n", "o", "r">>), Str(<<"I", "m", "m", "e", "d", "i", "a", "t", "e">>), MultiPolygonGeom),
      Feature(Str(<<"M", "o", "d", "e", "r", "a", "t", "e">>), Absent, PointGeom),
      Feature(Str(<<"M", "o", "d", "e", "r", "a", "t", "e">>), Absent, LineStringGeom),
      Feature(Str(<<"E", "x", "t", "r", "e", "m", "e">>), Absent, Null),
      ObjOf([geometry |-> PolygonGeom]),
      Feature(Whole(5), Absent, PointGeom),
      Null }

\* a ring whose mean is no whole number
TriRing ==
    Arr(<<Arr(<<Whole(1), Whole(5)>>), Arr(<<Whole(4), Whole(6)>>),
          Arr(<<Whole(-3), Whole(0)>>)>>)

Rings == {SquareRing, TriRing, Arr(<<>>)}

Polygons ==
    { Arr(<<SquareRing>>), Arr(<<TriRing, SquareRing>>), Arr(<<>>),
      Arr(<<Arr(<<Null>>)>>) }

GeometryOf(type, coordinates) ==
    ObjOf([type |-> type, coordinates |-> coordinates])

NavGeometries ==
    {GeometryOf(S_Polygon, Arr(rs)) : rs \in SeqsUpTo(Rings, MaxRings)}
    \cup {GeometryOf(S_MultiPolygon, Arr(ps)) :
            ps \in SeqsUpTo(Polygons, MaxRings)}
    \cup {GeometryOf(ty, co) :
            ty \in {S_Point, S_Polygon, S_MultiPolygon},
            co \in {Absent, Null, Arr(<<>>), Arr(<<Whole(-97), Whole(35)>>),
                    Arr(<<Dec(-975, 1), Dec(355, 1)>>)}}
    \cup { LineStringGeom, Null, Obj(<<>>),
           GeometryOf(Str(<<"G", "e", "o", "m", "e", "t", "r", "y", "C", "o", "l", "l", "e", "c", "t", "i", "o", "n">>), Absent) }

NavInputs ==
    {Feature(Str(<<"S", "e", "v", "e", "r", "e">>), Absent, g) : g \in NavGeometries}
    \cup {Null, Obj(<<>>)}

\* the alerts prop while advisories are being selected
SelectAlerts ==
    << Feature(Str(<<"M", "o", "d", "e", "r", "a", "t", "e">>), Absent, LineStringGeom),
       Feature(Str(<<"M", "i", "n", "o", "r">>), Absent, PointGeom),
       Feature(Str(<<"E", "x", "t", "r", "e", "m", "e">>), Absent, PolygonGeom) >>

\* the delay of the reset timer, in ms
RESET_MS == 2000

\* the amounts of time that may pass between two events, in ms
Delays == {RESET_MS \div 4, RESET_MS \div 2, RESET_MS}

\* elapsed times are not counted beyond this
ElapsedCap == 2 * RESET_MS

(* The refresh hooks (hooks/useBalloonData.ts, hooks/useAlertData.ts) *)

\* the loads one behaviour may start, and the runs of the effect
MaxLoads == 3
MaxInstances == 2

\* the fetch rejected: no response at all
NetworkFailure == [ok |-> FALSE, json |-> Raised, failed |-> TRUE]

\* a body that is not JSON: resp.json() rejects
NotJson == Raised

\* what the snapshot endpoint may answer to the hook
HourResponses ==
    { [ok |-> TRUE, json |-> Arr(<<Arr(<<Whole(10), Whole(20)>>)>>)],
      [ok |-> TRUE, json |-> Null],
      [ok |-> FALSE, json |-> Obj(<<>>)],
      NetworkFailure }

\* const data = await fetchBalloonHour(0); return data ? [data] : []
fetchCurrentHour(resp) ==
    LET d == IF resp = NetworkFailure \/ resp.json = NotJson THEN Null
             ELSE fetchBalloonHour(resp)
    IN  IF Falsy(d) THEN <<>> ELSE <<d>>

S_title == Str(<<"t", "i", "t", "l", "e">>)

\* what the advisory endpoint may answer
AlertResponses ==
    { [ok |-> TRUE, json |-> Obj([features |-> Arr(<<>>)])],
      [ok |-> TRUE,
       json |-> Obj([features |->
                        Arr(<<Feature(S_severe, S_expected, PolygonGeom),
                              Feature(S_minor, Absent, LineStringGeom)>>)])],
      [ok |-> TRUE, json |-> Obj([type |-> S_title])],
      [ok |-> FALSE, json |-> Obj([title |-> S_title, status |-> Whole(503)])],
      [ok |-> FALSE, json |-> NotJson],
      [ok |-> TRUE, json |-> Null],
      NetworkFailure }

\* try { resp = await fetch(url); data = await resp.json();
\*       return data.features } catch { return [] }
fetchActiveAlerts(resp) ==
    IF resp = NetworkFailure THEN Arr(<<>>)
    ELSE IF resp.json = NotJson THEN Arr(<<>>)
    ELSE IF resp.json \in {Null, Undefined} THEN Arr(<<>>)
    ELSE Get(resp.json, "features")

\* BalloonMap rendered by App with the alerts state: alerts.filter(...)
FilterOf(a) == IF IsArray(a) THEN validAlertsOf(a.a) ELSE Raised

StyleInputs ==
    {Feature(sev, urg, PointGeom) :
        sev \in SeverityValues, urg \in UrgencyValues}
    \cup {Null, Undefined, Obj(<<>>), Obj([properties |-> Null])}

----------------------------------------------------------------------------
(* The state machine *)

Idle == Undefined
Pending == [state |-> "pending", value |-> Undefined]
Fulfilled(v) == [state |-> "fulfilled", value |-> v]

IdleCoerce == value = Idle /\ coerced = Idle
IdleExtract == data = Idle /\ hourIndex = 0 /\ positions = <<>>
IdleLoop == hour = 0 /\ candidates = <<>> /\ seen = <<>> /\ balloonMap = <<>>
IdleMerge == data24h = <<>> /\ merged = <<>> /\ limited = <<>>
IdleFetch == promises = <<>> /\ arrival = <<>>
IdleRun == run = 0 /\ prevData = <<>> /\ prevMerged = <<>>
IdleCore ==
    IdleCoerce /\ IdleExtract /\ IdleLoop /\ IdleMerge /\ IdleFetch /\ IdleRun
IdleStyle == feature = Idle /\ style = Idle
IdleRender ==
    /\ alerts = <<>> /\ validAlerts = Arr(<<>>) /\ sortedAlerts = Arr(<<>>)
    /\ drawn = Arr(<<>>) /\ rows = Arr(<<>>)
IdleNav == targetAlert = Null /\ navigation = Idle
IdleSelect ==
    selectedAlert = Null /\ timers = <<>> /\ calls = <<>> /\ idle = 0
IdleHook ==
    /\ loading = FALSE /\ loadingAlerts = FALSE /\ isMountedRef = FALSE
    /\ intervalRef = 0 /\ instance = 0
    /\ loads = <<>> /\ journal = <<>> /\ holder = 0
IdleUi == IdleStyle /\ IdleRender /\ IdleNav /\ IdleSelect /\ IdleHook

\* safeNumber(value)
InitCoerce ==
    /\ entry = "safeNumber" /\ pc = "call"
    /\ value \in CoerceInputs /\ coerced = Idle
    /\ IdleExtract /\ IdleLoop /\ IdleMerge /\ IdleFetch /\ IdleRun
    /\ IdleUi

\* extractBalloonPositions(data, hourIndex)
InitExtract ==
    /\ entry = "extractBalloonPositions" /\ pc = "call"
    /\ data \in ExtractInputs /\ hourIndex \in HourInputs /\ positions = <<>>
    /\ IdleCoerce /\ IdleLoop /\ IdleMerge /\ IdleFetch /\ IdleRun
    /\ IdleUi

\* the positions.forEach of the merge, offered any positions at all
InitRule ==
    /\ entry = "mergeRule" /\ pc = "positions"
    /\ candidates \in SeqsUpTo(CandidateSet, MaxCandidates) \ {<<>>}
    /\ hour = 0 /\ seen = <<>> /\ balloonMap = <<>>
    /\ IdleCoerce /\ IdleExtract /\ IdleMerge /\ IdleFetch /\ IdleRun
    /\ IdleUi

\* extractBalloonPositionsLimited(data24h)
InitMerge ==
    /\ entry = "extractAllBalloonPositions" /\ pc = "hours"
    /\ data24h \in SeqsUpTo(MergeSnapshots, NumHours) \cup BulkLists
    /\ merged = <<>> /\ limited = <<>>
    /\ IdleCoerce /\ IdleExtract /\ IdleLoop /\ IdleFetch
    /\ run = 1 /\ prevData = <<>> /\ prevMerged = <<>>
    /\ IdleUi

\* extractBalloonPositionsLimited(await fetchLast24Hours())
InitFetch ==
    /\ entry = "fetchLast24Hours" /\ pc = "fetching"
    /\ promises = [i \in 1..NumFetch |-> Pending] /\ arrival = <<>>
    /\ IdleCoerce /\ IdleExtract /\ IdleLoop /\ IdleMerge /\ IdleRun
    /\ IdleUi

\* getAlertStyle(feature)
InitStyle ==
    /\ entry = "getAlertStyle" /\ pc = "call"
    /\ feature \in StyleInputs /\ style = Idle
    /\ IdleCore /\ IdleRender /\ IdleNav /\ IdleSelect /\ IdleHook

\* BalloonMap rendered with the alerts prop (not loading, list panel open)
InitRender ==
    /\ entry = "BalloonMap" /\ pc = "render"
    /\ alerts \in SeqsUpTo(AlertSamples, MaxAlerts)
    /\ validAlerts = Arr(<<>>) /\ sortedAlerts = Arr(<<>>)
    /\ drawn = Arr(<<>>) /\ rows = Arr(<<>>)
    /\ IdleCore /\ IdleStyle /\ IdleNav /\ IdleSelect /\ IdleHook

\* MapController mounted with a targetAlert
InitNav ==
    /\ entry = "MapController" /\ pc = "effect"
    /\ targetAlert \in NavInputs /\ navigation = Idle
    /\ IdleCore /\ IdleStyle /\ IdleRender /\ IdleSelect /\ IdleHook

\* BalloonMap rendered once, nothing selected, no timer pending
InitSelect ==
    /\ entry = "handleNavigateToAlert" /\ pc = "idle"
    /\ alerts = SelectAlerts
    /\ validAlerts = validAlertsOf(alerts)
    /\ sortedAlerts = sortedAlertsOf(validAlerts.a)
    /\ rows = rowsOf(sortedAlerts.a) /\ drawn = drawnOf(validAlerts.a)
    /\ selectedAlert = Null /\ timers = <<>> /\ calls = <<>> /\ idle = 0
    /\ IdleCore /\ IdleStyle /\ IdleNav /\ IdleHook

\* useBalloonData rendered for the first time, its effect not yet run
InitBalloonHook ==
    /\ entry = "useBalloonData" /\ pc = "rendered"
    /\ IdleCore /\ IdleStyle /\ IdleRender /\ IdleNav /\ IdleSelect
    /\ loading = TRUE /\ loadingAlerts = FALSE /\ isMountedRef = FALSE
    /\ intervalRef = 0 /\ instance = 0
    /\ loads = <<>> /\ journal = <<>> /\ holder = 0

\* useAlertData rendered for the first time, its effect not yet run
InitAlertHook ==
    /\ entry = "useAlertData" /\ pc = "rendered"
    /\ IdleCore /\ IdleStyle /\ IdleNav /\ IdleSelect
    /\ alerts = Arr(<<>>) /\ validAlerts = Arr(<<>>)
    /\ sortedAlerts = Arr(<<>>) /\ drawn = Arr(<<>>) /\ rows = Arr(<<>>)
    /\ loading = FALSE /\ loadingAlerts = TRUE /\ isMountedRef = TRUE
    /\ intervalRef = 0 /\ instance = 0
    /\ loads = <<>> /\ journal = <<>> /\ holder = 0

Init ==
    \/ InitBalloonHook \/ InitAlertHook
    \/ InitCoerce \/ InitExtract \/ InitRule \/ InitMerge \/ InitFetch
    \/ InitStyle \/ InitRender \/ InitNav \/ InitSelect

CallSafeNumber ==
    /\ entry = "safeNumber" /\ pc = "call"
    /\ coerced' = safeNumber(value)
    /\ pc' = "done"
    /\ UNCHANGED <<entry, value, extractVars, loopVars, mergeVars, fetchVars, runVars, uiVars>>

CallExtract ==
    /\ entry = "extractBalloonPositions" /\ pc = "call"
    /\ positions' = extractBalloonPositions(data, hourIndex)
    /\ pc' = "done"
    /\ UNCHANGED <<entry, data, hourIndex, coerceVars, loopVars, mergeVars,
                   fetchVars,
                   runVars, uiVars>>

\* VisitHour cutting the hour's positions to the room left under the cap
VisitHourCapped ==
    /\ pc = "hours" /\ hour < Len(data24h)
    /\ hour' = hour + 1
    /\ candidates' = IF Falsy(data24h[hour + 1]) THEN <<>>
                     ELSE Slice(extractBalloonPositions(data24h[hour + 1], hour),
                                MAX_BALLOONS - Len(balloonMap))
    /\ pc' = IF candidates' = <<>> THEN "hours" ELSE "positions"
    /\ UNCHANGED <<entry, seen, balloonMap, coerceVars, extractVars,
                   mergeVars, fetchVars,
                   runVars, uiVars>>

\* data24h.forEach((data, hourIndex) => ...): the callback up to
\* positions.forEach, for the next hour
VisitHour ==
    /\ pc = "hours" /\ hour < Len(data24h)
    /\ hour' = hour + 1
    /\ candidates' = IF Falsy(data24h[hour + 1]) THEN <<>>
                     ELSE extractBalloonPositions(data24h[hour + 1], hour)
    /\ pc' = IF candidates' = <<>> THEN "hours" ELSE "positions"
    /\ UNCHANGED <<entry, seen, balloonMap, coerceVars, extractVars,
                   mergeVars, fetchVars,
                   runVars, uiVars>>

\* positions.forEach((pos) => ...): the callback, for the next position
OfferCandidate ==
    /\ pc = "positions"
    /\ balloonMap' = MergeCandidate(balloonMap, Head(candidates))
    /\ seen' = Append(seen, Head(candidates))
    /\ candidates' = Tail(candidates)
    /\ pc' = IF candidates' = <<>> THEN "hours" ELSE "positions"
    /\ UNCHANGED <<entry, hour, coerceVars, extractVars, mergeVars,
                   fetchVars,
                   runVars, uiVars>>

\* return Array.from(balloonMap.values()), and the slice of the caller
ReturnMerged ==
    /\ pc = "hours" /\ hour = Len(data24h)
    /\ merged' = MapValues(balloonMap)
    /\ limited' = extractBalloonPositionsLimited(merged')
    /\ pc' = "done"
    /\ UNCHANGED <<entry, data24h, loopVars, coerceVars, extractVars,
                   fetchVars,
                   runVars, uiVars>>

CallGetAlertStyle ==
    /\ entry = "getAlertStyle" /\ pc = "call"
    /\ style' = getAlertStyle(feature)
    /\ pc' = "done"
    /\ UNCHANGED <<entry, feature, coreVars, hookVars, renderVars, navVars, selectVars>>

\* one render of BalloonMap: the two useMemo, then the rows and the layers
\* of the returned tree; an exception ends the render where it is raised
Render ==
    /\ entry = "BalloonMap" /\ pc = "render"
    /\ validAlerts' = validAlertsOf(alerts)
    /\ sortedAlerts' = sortedAlertsOf(validAlerts'.a)
    /\ rows' = IF sortedAlerts' = Raised THEN Arr(<<>>)
               ELSE rowsOf(sortedAlerts'.a)
    /\ drawn' = IF sortedAlerts' = Raised \/ rows' = Raised THEN Arr(<<>>)
                ELSE drawnOf(validAlerts'.a)
    /\ pc' = IF Raised \in {sortedAlerts', rows', drawn'} THEN "raised"
             ELSE "done"
    /\ UNCHANGED <<entry, alerts, coreVars, hookVars, styleVars, navVars, selectVars>>

\* the useEffect callback of MapController
RunEffect ==
    /\ entry = "MapController" /\ pc = "effect"
    /\ navigation' = MapControllerEffect(targetAlert)
    /\ pc' = IF navigation' = Raised THEN "raised" ELSE "done"
    /\ UNCHANGED <<entry, targetAlert, coreVars, hookVars, styleVars, renderVars,
                   selectVars>>

\* the rows of the list that can be clicked
RowIndexes == IF IsArray(sortedAlerts) THEN 1..Len(sortedAlerts.a) ELSE {}

\* handleNavigateToAlert cancelling the pending reset before it sets its own
handleNavigateDebounced(i) ==
    /\ entry = "handleNavigateToAlert" /\ Len(timers) < MaxTimers
    /\ selectedAlert' = sortedAlerts.a[i]
    /\ timers' = <<RESET_MS>>
    /\ calls' = Append(calls, 0)
    /\ idle' = 0
    /\ UNCHANGED <<entry, pc, coreVars, hookVars, styleVars, renderVars, navVars>>

\* a click on row i of the list: handleNavigateToAlert(sortedAlerts[i])
handleNavigateToAlert(i) ==
    /\ entry = "handleNavigateToAlert" /\ Len(timers) < MaxTimers
    /\ selectedAlert' = sortedAlerts.a[i]
    /\ timers' = Append(timers, RESET_MS)
    /\ calls' = Append(calls, 0)
    /\ idle' = 0
    /\ UNCHANGED <<entry, pc, coreVars, hookVars, styleVars, renderVars, navVars>>

\* the oldest timer is due: () => setSelectedAlert(null)
TimerFire ==
    /\ entry = "handleNavigateToAlert"
    /\ timers # <<>> /\ Head(timers) = 0
    /\ selectedAlert' = Null
    /\ timers' = Tail(timers)
    /\ calls' = <<>>
    /\ UNCHANGED <<entry, pc, idle, coreVars, hookVars, styleVars, renderVars, navVars>>

\* d ms pass without an event; a timer that is due fires before time goes on
Advance(d) ==
    /\ entry = "handleNavigateToAlert"
    /\ \A k \in 1..Len(timers) : timers[k] >= d
    /\ timers' = [k \in 1..Len(timers) |-> timers[k] - d]
    /\ calls' = [k \in 1..Len(calls) |-> Min(calls[k] + d, ElapsedCap)]
    /\ idle' = Min(idle + d, ElapsedCap)
    /\ UNCHANGED <<entry, pc, selectedAlert, coreVars, hookVars, styleVars, renderVars,
                   navVars>>

\* Rerun keeping the Map of the previous call (a Map held at module level)
RerunKeepingMap(next) ==
    /\ entry = "extractAllBalloonPositions" /\ pc = "done" /\ run < MaxRuns
    /\ run' = run + 1 /\ prevData' = data24h /\ prevMerged' = merged
    /\ data24h' = next /\ merged' = <<>> /\ limited' = <<>>
    /\ hour' = 0 /\ candidates' = <<>> /\ seen' = <<>>
    /\ pc' = "hours"
    /\ UNCHANGED <<entry, balloonMap, coerceVars, extractVars, fetchVars, uiVars>>

\* the next render calls extractBalloonPositionsLimited again, on the same
\* data24h or on the one a refresh has set: const balloonMap = new Map()
Rerun(next) ==
    /\ entry = "extractAllBalloonPositions" /\ pc = "done" /\ run < MaxRuns
    /\ run' = run + 1 /\ prevData' = data24h /\ prevMerged' = merged
    /\ data24h' = next /\ merged' = <<>> /\ limited' = <<>>
    /\ hour' = 0 /\ candidates' = <<>> /\ seen' = <<>> /\ balloonMap' = <<>>
    /\ pc' = "hours"
    /\ UNCHANGED <<entry, coerceVars, extractVars, fetchVars, uiVars>>

\* the fetch of hour i - 1 gets a response, in any order among the hours
FetchResponse(i, resp) ==
    /\ pc = "fetching" /\ promises[i] = Pending
    /\ promises' = [promises EXCEPT ![i] = Fulfilled(fetchBalloonHour(resp))]
    /\ arrival' = Append(arrival, i - 1)
    /\ UNCHANGED <<entry, pc, coerceVars, extractVars, loopVars, mergeVars, runVars, uiVars>>

\* the fetch of hour i - 1 throws (network error): the catch returns null
FetchError(i) ==
    /\ pc = "fetching" /\ promises[i] = Pending
    /\ promises' = [promises EXCEPT ![i] = Fulfilled(Null)]
    /\ arrival' = Append(arrival, i - 1)
    /\ UNCHANGED <<entry, pc, coerceVars, extractVars, loopVars, mergeVars, runVars, uiVars>>

\* await Promise.all(promises), then the filter
AwaitAll ==
    /\ pc = "fetching"
    /\ \A i \in 1..NumFetch : promises[i] # Pending
    /\ data24h' = fetchLast24Hours(promises)
    /\ pc' = "hours"
    /\ UNCHANGED <<entry, merged, limited, coerceVars, extractVars, loopVars,
                   fetchVars,
                   runVars, uiVars>>

\* what no action of useBalloonData touches
BalloonFrame ==
    UNCHANGED <<entry, coerceVars, extractVars, loopVars, merged, limited,
                fetchVars, runVars, styleVars, renderVars, navVars,
                selectVars, loadingAlerts, isMountedRef>>

\* what no action of useAlertData touches
AlertFrame ==
    UNCHANGED <<entry, coreVars, styleVars, navVars, selectVars, loading>>

\* a call of load() by effect instance k reaches its fetch
Started(k) ==
    Append(loads, [inst |-> k, settled |-> FALSE,
                   unmounted |-> pc = "unmounted"])

\* the call i of load() has settled
Settled(i) == [loads EXCEPT ![i].settled = TRUE]

\* the call i of load() writes state: was its effect instance cleaned up,
\* and was the view torn down, when it did
Written(i) ==
    Append(journal, [load |-> i,
                     stale |-> loads[i].inst # instance \/ pc # "active",
                     unmounted |-> pc = "unmounted"])

\* useBalloonData: the effect runs after the first render: load(), then
\* setInterval(load, updateIntervalMs)
BalloonEffect ==
    /\ entry = "useBalloonData" /\ pc = "rendered"
    /\ instance' = instance + 1
    /\ loading' = TRUE /\ loads' = Started(instance')
    /\ intervalRef' = instance'
    /\ pc' = "active"
    /\ UNCHANGED <<data24h, journal, holder>>
    /\ BalloonFrame

\* useBalloonData: the interval timer calls load()
BalloonInterval ==
    /\ entry = "useBalloonData" /\ intervalRef # 0
    /\ Len(loads) < MaxLoads
    /\ loading' = TRUE /\ loads' = Started(intervalRef)
    /\ UNCHANGED <<pc, data24h, instance, intervalRef, journal, holder>>
    /\ BalloonFrame

\* useBalloonData: the fetch of call i settles and load() goes on:
\* setData24h(d); setLoading(false)
BalloonLoaded(i, resp) ==
    /\ entry = "useBalloonData" /\ ~loads[i].settled
    /\ data24h' = fetchCurrentHour(resp)
    /\ loading' = FALSE
    /\ loads' = Settled(i) /\ journal' = Written(i) /\ holder' = i
    /\ UNCHANGED <<pc, instance, intervalRef>>
    /\ BalloonFrame

\* useBalloonData: updateIntervalMs changes: the cleanup, then the effect
BalloonRerun ==
    /\ entry = "useBalloonData" /\ pc = "active"
    /\ instance < MaxInstances /\ Len(loads) < MaxLoads
    /\ instance' = instance + 1
    /\ loading' = TRUE /\ loads' = Started(instance')
    /\ intervalRef' = instance'
    /\ UNCHANGED <<pc, data24h, journal, holder>>
    /\ BalloonFrame

\* useBalloonData: the view is torn down: () => clearInterval(id)
BalloonUnmount ==
    /\ entry = "useBalloonData" /\ pc = "active"
    /\ intervalRef' = 0
    /\ pc' = "unmounted"
    /\ UNCHANGED <<data24h, loading, instance, loads, journal, holder>>
    /\ BalloonFrame

\* useAlertData: the effect runs after the first render
AlertEffect ==
    /\ entry = "useAlertData" /\ pc = "rendered"
    /\ isMountedRef' = TRUE
    /\ instance' = instance + 1
    /\ loadingAlerts' = TRUE /\ loads' = Started(instance')
    /\ intervalRef' = instance'
    /\ pc' = "active"
    /\ UNCHANGED <<renderVars, journal, holder>>
    /\ AlertFrame

\* useAlertData: the interval timer calls load()
AlertInterval ==
    /\ entry = "useAlertData" /\ pc = "active" /\ intervalRef # 0
    /\ Len(loads) < MaxLoads
    /\ IF isMountedRef
       THEN loadingAlerts' = TRUE /\ loads' = Started(intervalRef)
       ELSE UNCHANGED <<loadingAlerts, loads>>
    /\ UNCHANGED <<pc, renderVars, isMountedRef, instance, intervalRef,
                   journal, holder>>
    /\ AlertFrame

\* AlertLoaded writing its result whatever isMountedRef holds
AlertLoadedUnguarded(i, resp) ==
    /\ entry = "useAlertData" /\ ~loads[i].settled
    /\ pc \in {"active", "unmounted"}
    /\ loads' = Settled(i)
    /\ alerts' = fetchActiveAlerts(resp)
    /\ loadingAlerts' = FALSE
    /\ journal' = Written(i) /\ holder' = i
    /\ validAlerts' = FilterOf(alerts')
    /\ sortedAlerts' = IF validAlerts' = Raised THEN sortedAlerts
                       ELSE sortedAlertsOf(validAlerts'.a)
    /\ rows' = IF Raised \in {validAlerts', sortedAlerts'} THEN rows
               ELSE rowsOf(sortedAlerts'.a)
    /\ drawn' = IF Raised \in {validAlerts', sortedAlerts', rows'}
                THEN drawn ELSE drawnOf(validAlerts'.a)
    /\ pc' = IF pc = "active"
                /\ Raised \in {validAlerts', sortedAlerts', rows', drawn'}
             THEN "raised" ELSE pc
    /\ UNCHANGED <<isMountedRef, instance, intervalRef>>
    /\ AlertFrame

\* useAlertData: the fetch of call i settles and load() goes on: under
\* isMountedRef.current, setAlerts(a); setLoadingAlerts(false), and App
\* renders BalloonMap with the new alerts
AlertLoaded(i, resp) ==
    /\ entry = "useAlertData" /\ ~loads[i].settled
    /\ pc \in {"active", "unmounted"}
    /\ loads' = Settled(i)
    /\ IF isMountedRef
       THEN /\ alerts' = fetchActiveAlerts(resp)
            /\ loadingAlerts' = FALSE
            /\ journal' = Written(i) /\ holder' = i
            /\ validAlerts' = FilterOf(alerts')
            /\ sortedAlerts' = IF validAlerts' = Raised THEN sortedAlerts
                               ELSE sortedAlertsOf(validAlerts'.a)
            /\ rows' = IF Raised \in {validAlerts', sortedAlerts'} THEN rows
                       ELSE rowsOf(sortedAlerts'.a)
            /\ drawn' = IF Raised \in {validAlerts', sortedAlerts', rows'}
                        THEN drawn ELSE drawnOf(validAlerts'.a)
            /\ pc' = IF Raised \in {validAlerts', sortedAlerts', rows', drawn'}
                     THEN "raised" ELSE pc
       ELSE UNCHANGED <<pc, renderVars, loadingAlerts, journal, holder>>
    /\ UNCHANGED <<isMountedRef, instance, intervalRef>>
    /\ AlertFrame

\* useAlertData: updateIntervalMs changes: the cleanup, then the effect
AlertRerun ==
    /\ entry = "useAlertData" /\ pc = "active"
    /\ instance < MaxInstances /\ Len(loads) < MaxLoads
    /\ isMountedRef' = TRUE
    /\ instance' = instance + 1
    /\ loadingAlerts' = TRUE /\ loads' = Started(instance')
    /\ intervalRef' = instance'
    /\ UNCHANGED <<pc, renderVars, journal, holder>>
    /\ AlertFrame

\* useAlertData: the view is torn down: the cleanup of the effect
AlertUnmount ==
    /\ entry = "useAlertData" /\ pc = "active"
    /\ isMountedRef' = FALSE
    /\ intervalRef' = 0
    /\ pc' = "unmounted"
    /\ UNCHANGED <<renderVars, loadingAlerts, instance, loads, journal,
                   holder>>
    /\ AlertFrame

\* the calls of load() whose fetch has not settled
InFlight == {i \in 1..Len(loads) : ~loads[i].settled}

Next ==
    \/ BalloonEffect
    \/ BalloonInterval
    \/ \E i \in InFlight : \E resp \in HourResponses : BalloonLoaded(i, resp)
    \/ BalloonRerun
    \/ BalloonUnmount
    \/ AlertEffect
    \/ AlertInterval
    \/ \E i \in InFlight : \E resp \in AlertResponses : AlertLoaded(i, resp)
    \/ AlertRerun
    \/ AlertUnmount
    \/ CallSafeNumber
    \/ CallExtract
    \/ VisitHour
    \/ OfferCandidate
    \/ ReturnMerged
    \/ \E next \in {data24h} \cup RefreshLists : Rerun(next)
    \/ \E i \in 1..NumFetch : \E resp \in Responses : FetchResponse(i, resp)
    \/ \E i \in 1..NumFetch : FetchError(i)
    \/ AwaitAll
    \/ CallGetAlertStyle
    \/ Render
    \/ RunEffect
    \/ \E i \in RowIndexes : handleNavigateToAlert(i)
    \/ TimerFire
    \/ \E d \in Delays : Advance(d)

Spec == Init /\ [][Next]_vars

----------------------------------------------------------------------------
(* Position extraction: the claims *)

ExtractDone == entry = "extractBalloonPositions" /\ pc = "done"

\* a coerced coordinate x is present and lo <= x <= hi, by integer arithmetic
WithinRange(x, lo, hi) ==
    /\ x # Null
    /\ x.k = "fin"
    /\ IF x.e >= 0
       THEN lo * Pow10(x.e) <= x.m /\ x.m <= hi * Pow10(x.e)
       ELSE /\ NumDigits(Abs(x.m)) - x.e <= 3
            /\ lo <= x.m * Pow10(-x.e) /\ x.m * Pow10(-x.e) <= hi

\* the output holds a Position for the element at index idx of the raw sequence
Produced(out, h, idx) == \E k \in 1..Len(out) : out[k].id = FormatId(h, idx)

PositionOf(out, h, idx) ==
    out[CHOOSE k \in 1..Len(out) : out[k].id = FormatId(h, idx)]

\* C1: an element of the raw sequence produces a Position iff its coerced
\* latitude and longitude are both present with -90 <= lat <= 90 and
\* -180 <= lon <= 180 (bounds inclusive); the altitude never decides it, and
\* an absent or unparseable altitude leaves the Position's altitude omitted.
C1_AcceptedIffInRange ==
    ExtractDone =>
        \A n \in 1..Len(RawSequence(data)) :
            LET c == ItemCoords(RawSequence(data)[n])
            IN  /\ Produced(positions, hourIndex, n - 1)
                    <=> (WithinRange(c.lat, -90, 90)
                         /\ WithinRange(c.lon, -180, 180))
                /\ Produced(positions, hourIndex, n - 1) =>
                    PositionOf(positions, hourIndex, n - 1).altitude
                        = (IF c.alt = Null THEN Undefined ELSE c.alt)

\* [90, 180] kept, [91, 0] dropped, and an element with an unparseable
\* altitude kept without altitude, in one extraction
C1_Witness ==
    /\ ExtractDone
    /\ RawSequence(data) = << Arr(<<Whole(90), Whole(180)>>),
                              Arr(<<Whole(91), Whole(0)>>),
                              Arr(<<S_12_5, Whole(-180), S_abc>>) >>
    /\ Len(positions) = 2
    /\ positions[1].lat = Whole(90) /\ positions[1].lon = Whole(180)
    /\ positions[2].lat = Dec(125, 1) /\ positions[2].altitude = Undefined

\* a [lat, lon] pair of native numbers in range
ValidPair(el) ==
    /\ IsArray(el) /\ Len(el.a) = 2
    /\ el.a[1].t = "number" /\ WithinRange(el.a[1], -90, 90)
    /\ el.a[2].t = "number" /\ WithinRange(el.a[2], -180, 180)

\* C2: a snapshot of n valid [lat, lon] pairs yields exactly n Positions in
\* input order, the k-th with id balloon-{h}-{k}, hourIndex h and the k-th
\* element's lat and lon; in general the idx in an accepted Position's id is
\* the element's index in the raw sequence, skipped elements counted.
C2_OnePositionPerValidPair ==
    ExtractDone =>
        LET raw == RawSequence(data)
        IN  /\ (\A n \in 1..Len(raw) : ValidPair(raw[n])) =>
                /\ Len(positions) = Len(raw)
                /\ \A k \in 1..Len(raw) :
                    /\ positions[k].id = FormatId(hourIndex, k - 1)
                    /\ positions[k].hourIndex = Whole(hourIndex)
                    /\ positions[k].lat = raw[k].a[1]
                    /\ positions[k].lon = raw[k].a[2]
            /\ \A k \in 1..Len(positions) :
                \E n \in k..Len(raw) :
                    /\ positions[k].id = FormatId(hourIndex, n - 1)
                    /\ positions[k].lat = ItemCoords(raw[n]).lat
                    /\ positions[k].lon = ItemCoords(raw[n]).lon
                    /\ \A j \in 1..(k - 1) :
                        \E i \in 1..(n - 1) :
                            positions[j].id = FormatId(hourIndex, i - 1)

\* two valid pairs at hour 23, and elsewhere an accepted element after a
\* skipped one keeps its raw index
C2_Witness ==
    /\ ExtractDone /\ hourIndex = 23
    /\ RawSequence(data) = << Arr(<<Whole(90), Whole(180)>>),
                              Obj([lat |-> Whole(1), lon |-> Whole(2)]) >>
    /\ Len(positions) = 2
    /\ positions[2].id = <<"balloon-", "2", "3", "-", "1">>
    /\ positions[2].lon = Whole(2)

\* values that fail as an element
Malformed ==
    { Null, Whole(5), S_abc, Arr(<<Whole(1)>>), Arr(<<S_abc, Whole(0)>>),
      Arr(<<Whole(91), Whole(0)>>), Arr(<<Whole(0), Whole(181)>>) }

\* the snapshot d with its raw sequence replaced by r
WithRaw(d, r) ==
    IF IsArray(d) THEN Arr(r)
    ELSE IF "balloons" \in DOMAIN d.o /\ IsArray(d.o.balloons)
         THEN Obj([d.o EXCEPT !["balloons"] = Arr(r)])
    ELSE Obj([d.o EXCEPT !["data"] = Arr(r)])

\* out without the Position of the element at index idx
Without(out, h, idx) == SelectSeq(out, LAMBDA p : p.id # FormatId(h, idx))

\* C3: a malformed element is skipped individually: replacing any one
\* element of the raw sequence by a malformed value removes at most that
\* element's Position and changes no other Position.
C3_MalformedSkippedAlone ==
    (ExtractDone /\ RawSequence(data) # <<>>) =>
        \A n \in 1..Len(RawSequence(data)) : \A bad \in Malformed :
            extractBalloonPositions(
                WithRaw(data, [RawSequence(data) EXCEPT ![n] = bad]),
                hourIndex)
            = Without(positions, hourIndex, n - 1)

\* a malformed element between two accepted ones
C3_Witness ==
    /\ ExtractDone
    /\ RawSequence(data) = << Arr(<<Whole(90), Whole(180)>>),
                              Null,
                              Arr(<<S_12_5, Whole(-180), S_abc>>) >>
    /\ Len(positions) = 2
    /\ positions[2].id = FormatId(hourIndex, 2)

\* the snapshot exposes no sequence, or an empty one
NoElements(d) ==
    \/ d.t \notin {"array", "object"}
    \/ d.t = "array" /\ d.a = <<>>
    \/ /\ d.t = "object"
       /\ ~("balloons" \in DOMAIN d.o /\ d.o.balloons.t = "array")
       /\ ~("data" \in DOMAIN d.o /\ d.o.data.t = "array")

MergeDone == entry = "extractAllBalloonPositions" /\ pc = "done"

\* C4: for a null, undefined, primitive or empty snapshot, and for an object
\* exposing neither a `balloons` nor a `data` sequence, extractBalloonPositions
\* returns the empty sequence; extractAllBalloonPositions returns a sequence
\* to which such snapshots contribute no position.
C4_NoElementsNoPositions ==
    /\ (ExtractDone /\ NoElements(data)) => positions = <<>>
    /\ MergeDone =>
        \A h \in 1..Len(data24h) :
            NoElements(data24h[h]) =>
                \A k \in 1..Len(merged) : merged[k].hourIndex # Whole(h - 1)

\* an object with an unsupported key only, extracted to nothing
C4_Witness ==
    /\ ExtractDone
    /\ data = Obj([positions |-> Arr(OtherSeq)])
    /\ positions = <<>>

\* the raw sequence by the stated precedence
SourceByPrecedence(d) ==
    CASE d.t = "array" -> d.a
      [] d.t = "object" /\ "balloons" \in DOMAIN d.o /\ d.o.balloons.t = "array"
            -> d.o.balloons.a
      [] d.t = "object"
            /\ ~("balloons" \in DOMAIN d.o /\ d.o.balloons.t = "array")
            /\ "data" \in DOMAIN d.o /\ d.o.data.t = "array"
            -> d.o.data.a
      [] OTHER -> <<>>

\* C5: the raw sequence is the input itself when it is a sequence, otherwise
\* its `balloons` member when that is a sequence, otherwise its `data` member
\* when that is a sequence, otherwise none: the Positions are those of the
\* elements of that sequence and of no other.
C5_SourcePrecedence ==
    ExtractDone =>
        LET raw == SourceByPrecedence(data)
        IN  /\ \A k \in 1..Len(positions) :
                \E n \in 1..Len(raw) :
                    /\ positions[k].id = FormatId(hourIndex, n - 1)
                    /\ positions[k].lat = ItemCoords(raw[n]).lat
                    /\ positions[k].lon = ItemCoords(raw[n]).lon
            /\ \A n \in 1..Len(raw) :
                ValidPair(raw[n]) => Produced(positions, hourIndex, n - 1)

\* `balloons` empty and `data` not: nothing is extracted
C5_Witness ==
    /\ ExtractDone
    /\ data = Obj([balloons |-> Arr(<<>>), data |-> Arr(OtherSeq)])
    /\ positions = <<>>

----------------------------------------------------------------------------
(* Numeric coercion: the claims *)

\* C6: safeNumber returns a finite number or absent for every input value
\* (native NaN and +/-Infinity, and strings parsing to them, give absent)
C6_FiniteOrAbsent ==
    (entry = "safeNumber" /\ pc = "done") =>
        \/ coerced = Null
        \/ coerced.t = "number" /\ coerced.k = "fin"

----------------------------------------------------------------------------
(* Merge, cap and fetch pipeline: the claims *)

\* the hour index of a position, as an integer
HourInt(p) == p.hourIndex.m * Pow10(-p.hourIndex.e)

\* the first position of `seen` with the least hour index among those with id
FirstLeast(id) ==
    LET same == {i \in 1..Len(seen) : seen[i].id = id}
        best == CHOOSE i \in same :
                    \A j \in same :
                        \/ HourInt(seen[i]) < HourInt(seen[j])
                        \/ HourInt(seen[i]) = HourInt(seen[j]) /\ i <= j
    IN  seen[best]

\* C7: a candidate replaces the entry stored under its id only when none is
\* stored or the stored entry's hourIndex is strictly greater; so the entry
\* stored for each id is the candidate with the minimum hourIndex among all
\* candidates with that id, the first seen among equals.
C7_MinHourFirstSeenKept ==
    /\ \A i \in 1..Len(seen) : MapHas(balloonMap, seen[i].id)
    /\ \A k \in 1..Len(balloonMap) :
        /\ balloonMap[k].value = FirstLeast(balloonMap[k].key)
        /\ \A j \in 1..Len(balloonMap) :
            balloonMap[j].key = balloonMap[k].key => j = k

\* id X offered at hour 1, then at hour 0 (kept), then at hour 0 again
C7_Witness ==
    /\ entry = "mergeRule" /\ Len(seen) = 3
    /\ seen[1].id = X_ID /\ seen[2].id = X_ID /\ seen[3].id = X_ID
    /\ HourInt(seen[1]) = 1 /\ HourInt(seen[2]) = 0 /\ HourInt(seen[3]) = 0
    /\ seen[2] # seen[3]
    /\ Len(balloonMap) = 1 /\ balloonMap[1].value = seen[2]

\* C8: every Position derived from the payload of hour k has hourIndex k and
\* id balloon-{k}-{idx}, whichever fetches fail and in whatever order they
\* complete: a failed fetch shifts no other snapshot's hour index.
C8_HourIndexOfItsFile ==
    (entry = "fetchLast24Hours" /\ pc = "done") =>
        \A k \in 1..Len(merged) :
            \E h \in 1..NumFetch :
                LET own == extractBalloonPositions(promises[h].value, h - 1)
                IN  \E j \in 1..Len(own) : own[j] = merged[k]

\* every merged position is one the extractor gives for a snapshot of data24h
FromCurrentInput ==
    \A k \in 1..Len(merged) :
        \E h \in 1..Len(data24h) :
            LET own == extractBalloonPositions(data24h[h], h - 1)
            IN  \E j \in 1..Len(own) : own[j] = merged[k]

\* C11: a second run of extractAllBalloonPositions on the same snapshots
\* returns the same sequence of Positions as the first, and no run returns
\* anything a previous run left behind.
C11_RerunSameResult ==
    (entry = "extractAllBalloonPositions" /\ pc = "done" /\ run > 1) =>
        /\ data24h = prevData => merged = prevMerged
        /\ FromCurrentInput

\* a second run on the same two snapshots, four positions each time
C11_Witness ==
    /\ entry = "extractAllBalloonPositions" /\ pc = "done" /\ run = 2
    /\ Len(data24h) = 2 /\ data24h = prevData
    /\ Len(merged) = 4 /\ prevMerged = merged

RealMergeDone ==
    entry \in {"extractAllBalloonPositions", "fetchLast24Hours"} /\ pc = "done"

\* C9: the capped result is the first min(100, n) entries of the merged
\* result, each identical to the entry the merge keeps for its id, and every
\* position of every snapshot was offered to the merge rule before the cap.
C9_CapAfterMerge ==
    RealMergeDone =>
        /\ Len(limited) = Min(100, Len(merged))
        /\ \A k \in 1..Len(limited) :
            limited[k] = merged[k] /\ MapGet(balloonMap, limited[k].id) = limited[k]
        /\ \A h \in 1..Len(data24h) :
            LET own == extractBalloonPositions(data24h[h], h - 1)
            IN  \A j \in 1..Len(own) :
                    \E i \in 1..Len(seen) : seen[i] = own[j]

\* more than 100 merged positions, capped to 100
C9_Witness ==
    /\ RealMergeDone
    /\ Len(merged) > 100 /\ Len(limited) = 100
    /\ HourInt(limited[100]) = 1

\* the element index in the id of a position of the merged output
IdxOf(p) == CHOOSE a \in 0..BulkLen : p.id = FormatId(HourInt(p), a)

\* C10: the merged output is in hour-then-index order: for p before q,
\* p.hourIndex < q.hourIndex, or the hours are equal and p's element index is
\* smaller than q's.
C10_HourThenIndexOrder ==
    RealMergeDone =>
        LET idx == [k \in 1..Len(merged) |-> IdxOf(merged[k])]
        IN  \A i \in 1..Len(merged) : \A j \in (i + 1)..Len(merged) :
                \/ HourInt(merged[i]) < HourInt(merged[j])
                \/ /\ HourInt(merged[i]) = HourInt(merged[j])
                   /\ merged[i].id = FormatId(HourInt(merged[i]), idx[i])
                   /\ merged[j].id = FormatId(HourInt(merged[j]), idx[j])
                   /\ idx[i] < idx[j]

\* two hours merged, the later hour's first element after the earlier
\* hour's last
C10_Witness ==
    /\ entry = "extractAllBalloonPositions" /\ pc = "done"
    /\ Len(merged) = 4
    /\ merged[1].id = FormatId(0, 1) /\ merged[2].id = FormatId(0, 3)
    /\ merged[3].id = FormatId(1, 0) /\ merged[4].id = FormatId(1, 1)

----------------------------------------------------------------------------
(* Hazard classification: the claims *)

StyleDone == entry = "getAlertStyle" /\ pc = "done"

\* v is the word w (given in lower case) in any letter case
SameWord(v, w) ==
    /\ v.t = "string" /\ Len(v.s) = Len(w.s)
    /\ \A i \in 1..Len(v.s) : ToLowerChar(v.s[i]) = w.s[i]

\* the number of the first classification rule an advisory matches, 6 if none
RuleOf(f) ==
    LET sev == PropertyOf(f, "severity")
        urg == PropertyOf(f, "urgency")
    IN  IF SameWord(sev, S_extreme) \/ SameWord(urg, S_immediate) THEN 1
        ELSE IF SameWord(sev, S_severe) THEN 2
        ELSE IF SameWord(sev, S_moderate) THEN 3
        ELSE IF SameWord(sev, S_minor) \/ SameWord(sev, S_unknown) THEN 4
        ELSE IF SameWord(urg, S_expected) THEN 5
        ELSE 6

RuleColor == <<DARK_RED, ORANGE, YELLOW, GREEN, ORANGE>>

\* C12: getAlertStyle resolves the color by the first matching rule, in the
\* order extreme-or-immediate (dark red), severe (orange), moderate (yellow),
\* minor-or-unknown (green), expected (orange), comparing in any letter case.
C12_FirstMatchingRule ==
    (StyleDone /\ style # Raised /\ RuleOf(feature) < 6) =>
        /\ style.color = RuleColor[RuleOf(feature)]
        /\ style.fillColor = style.color

\* severity Minor with urgency IMMEDIATE is dark red
C12_Witness ==
    /\ StyleDone
    /\ PropertyOf(feature, "severity") = Str(<<"M", "i", "n", "o", "r">>)
    /\ SameWord(PropertyOf(feature, "urgency"), S_immediate)
    /\ PropertyOf(feature, "urgency") # S_immediate
    /\ style # Raised /\ style.color = DARK_RED

\* C13: an advisory that matches none of rules 1-5, {} among them, is given
\* the neutral gray color.
C13_UnmatchedIsGray ==
    (StyleDone /\ style # Raised /\ RuleOf(feature) = 6) =>
        style.color = SLATE

\* the advisory f with property k set to v
WithProperty(f, k, v) ==
    Obj([f.o EXCEPT !.properties = Obj((k :> v) @@ f.o.properties.o)])

HasProperties(f) ==
    /\ f.t = "object" /\ "properties" \in DOMAIN f.o
    /\ f.o.properties.t = "object"

\* C14: an advisory with severity (urgency) absent is styled as the same
\* advisory with severity (urgency) "unknown".
C14_AbsentAsUnknown ==
    (StyleDone /\ HasProperties(feature)) =>
        /\ PropertyOf(feature, "severity") = Undefined =>
            style = getAlertStyle(WithProperty(feature, "severity", S_unknown))
        /\ PropertyOf(feature, "urgency") = Undefined =>
            style = getAlertStyle(WithProperty(feature, "urgency", S_unknown))

RenderDone == entry = "BalloonMap" /\ pc = "done"

\* the rank of the tier the classification rules give an advisory
TierRank(f) ==
    LET rule == RuleOf(f)
    IN  IF rule = 1 THEN 0
        ELSE IF rule = 2 \/ rule = 5 THEN 1
        ELSE IF rule = 3 THEN 2
        ELSE IF rule = 4 /\ SameWord(PropertyOf(f, "severity"), S_minor) THEN 3
        ELSE 4

OfTier(list, r) == SelectSeq(list, LAMBDA a : TierRank(a) = r)

\* C15: the list is the stable sort of the eligible advisories by the tier
\* the classifier gives them, extreme < severe < moderate < minor < unknown:
\* tiers never decrease along the list, and advisories of one tier keep
\* their input order.
C15_RankedByClassifierTier ==
    RenderDone =>
        /\ \A i \in 1..Len(sortedAlerts.a) :
            \A j \in (i + 1)..Len(sortedAlerts.a) :
                TierRank(sortedAlerts.a[i]) <= TierRank(sortedAlerts.a[j])
        /\ \A r \in 0..4 :
            OfTier(sortedAlerts.a, r) = OfTier(validAlerts.a, r)

\* how many times v occurs in list
Occurrences(list, v) == Cardinality({i \in 1..Len(list) : list[i] = v})

\* an advisory with geometry type Point, Polygon or MultiPolygon
Eligible(a) ==
    /\ a.t = "object" /\ "geometry" \in DOMAIN a.o
    /\ a.o.geometry.t = "object" /\ "type" \in DOMAIN a.o.geometry.o
    /\ a.o.geometry.o.type \in {S_Point, S_Polygon, S_MultiPolygon}

DrawnAlerts == [i \in 1..Len(drawn.a) |-> drawn.a[i].alert]

\* C16: the ranked list and the drawn advisories contain exactly the
\* advisories of the raw list whose geometry type is Point, Polygon or
\* MultiPolygon, each as many times as the raw list has it, and no other.
C16_OnlySupportedGeometry ==
    RenderDone =>
        \A a \in AlertSamples :
            LET n == IF Eligible(a) THEN Occurrences(alerts, a) ELSE 0
            IN  /\ Occurrences(sortedAlerts.a, a) = n
                /\ Occurrences(DrawnAlerts, a) = n
                /\ Len(rows.a) = Len(sortedAlerts.a)

\* a LineString, a null geometry and a Polygon: only the Polygon is kept
C16_Witness ==
    /\ RenderDone /\ Len(alerts) = 3
    /\ ~Eligible(alerts[1]) /\ alerts[1] # Null
    /\ alerts[1].o.geometry = LineStringGeom
    /\ alerts[2] # Null /\ alerts[2].o.geometry = Null
    /\ Eligible(alerts[3])
    /\ sortedAlerts.a = <<alerts[3]>> /\ DrawnAlerts = <<alerts[3]>>

----------------------------------------------------------------------------
(* Map navigation: the claims *)

\* the effect of MapController has run, to its end or to an exception
EffectRan == entry = "MapController" /\ pc \in {"done", "raised"}

HasGeometry(a) ==
    /\ a.t = "object" /\ "geometry" \in DOMAIN a.o
    /\ a.o.geometry.t = "object"

TypeIs(a, type) ==
    /\ HasGeometry(a) /\ "type" \in DOMAIN a.o.geometry.o
    /\ a.o.geometry.o.type = type

\* the coordinates of a, a non-empty array
HasParts(a) ==
    /\ "coordinates" \in DOMAIN a.o.geometry.o
    /\ a.o.geometry.o.coordinates.t = "array"
    /\ a.o.geometry.o.coordinates.a # <<>>

\* r is a non-empty sequence of [lon, lat] pairs
WellFormedRing(r) ==
    /\ r.t = "array" /\ r.a # <<>>
    /\ \A i \in 1..Len(r.a) : IsVertex(r.a[i])

\* c is the arithmetic mean of the vertices of ring
IsMean(c, ring) ==
    /\ c.lat.d > 0 /\ c.lon.d > 0
    /\ c.lat.n * Len(ring) = c.lat.d * RingSum(ring, 2)
    /\ c.lon.n * Len(ring) = c.lon.d * RingSum(ring, 1)

\* b is the least box that holds every vertex of ring
IsMinimalBox(b, ring) ==
    /\ \A i \in 1..Len(ring) :
        /\ b.south <= IntValue(ring[i].a[2]) /\ IntValue(ring[i].a[2]) <= b.north
        /\ b.west <= IntValue(ring[i].a[1]) /\ IntValue(ring[i].a[1]) <= b.east
    /\ \E i \in 1..Len(ring) : IntValue(ring[i].a[2]) = b.south
    /\ \E i \in 1..Len(ring) : IntValue(ring[i].a[2]) = b.north
    /\ \E i \in 1..Len(ring) : IntValue(ring[i].a[1]) = b.west
    /\ \E i \in 1..Len(ring) : IntValue(ring[i].a[1]) = b.east

\* the navigation issued is the fly-to-bounds for ring r
BoundsTargetFor(r) ==
    /\ navigation.t = "flyToBounds"
    /\ IsMean(navigation.center, r.a)
    /\ IsMinimalBox(navigation.bounds, r.a)
    /\ navigation.padding = 100 /\ navigation.maxZoom = 12

\* C17: for a Polygon the target is computed from the first ring only (mean
\* of its vertices, least box around them, padding 100, maximum zoom 12);
\* for a MultiPolygon, from the first ring of the first polygon.
C17_FirstRingOnly ==
    EffectRan =>
        /\ (/\ TypeIs(targetAlert, S_Polygon) /\ HasParts(targetAlert)
            /\ WellFormedRing(targetAlert.o.geometry.o.coordinates.a[1]))
           => BoundsTargetFor(targetAlert.o.geometry.o.coordinates.a[1])
        /\ (/\ TypeIs(targetAlert, S_MultiPolygon) /\ HasParts(targetAlert)
            /\ targetAlert.o.geometry.o.coordinates.a[1].t = "array"
            /\ targetAlert.o.geometry.o.coordinates.a[1].a # <<>>
            /\ WellFormedRing(targetAlert.o.geometry.o.coordinates.a[1].a[1]))
           => BoundsTargetFor(targetAlert.o.geometry.o.coordinates.a[1].a[1])

\* the square of the worked example followed by a second ring: center
\* (1, 1), box from (0, 0) to (2, 2)
C17_Witness ==
    /\ EffectRan /\ TypeIs(targetAlert, S_Polygon) /\ HasParts(targetAlert)
    /\ targetAlert.o.geometry.o.coordinates = Arr(<<SquareRing, TriRing>>)
    /\ navigation.t = "flyToBounds"
    /\ navigation.center = [lat |-> [n |-> 1, d |-> 1], lon |-> [n |-> 1, d |-> 1]]
    /\ navigation.bounds = [south |-> 0, north |-> 2, west |-> 0, east |-> 2]

\* the coordinates of a Point: at least two numbers
HasPointCoordinates(a) ==
    /\ "coordinates" \in DOMAIN a.o.geometry.o
    /\ a.o.geometry.o.coordinates.t = "array"
    /\ Len(a.o.geometry.o.coordinates.a) >= 2
    /\ a.o.geometry.o.coordinates.a[1].t = "number"
    /\ a.o.geometry.o.coordinates.a[2].t = "number"

\* no selection, no geometry, or a geometry of an unsupported type
NothingToShow(a) ==
    \/ ~HasGeometry(a)
    \/ ~(\E ty \in {S_Point, S_Polygon, S_MultiPolygon} : TypeIs(a, ty))

\* C18: a Point gives a fly-to centered on the point (lat coordinates[1],
\* lon coordinates[0]) at zoom 10 and nothing else; no selection, a missing
\* geometry and any unsupported geometry type give no navigation.
C18_KindByGeometryType ==
    EffectRan =>
        /\ (TypeIs(targetAlert, S_Point) /\ HasPointCoordinates(targetAlert))
           => navigation =
                [t |-> "flyTo", zoom |-> 10,
                 center |-> [lat |-> targetAlert.o.geometry.o.coordinates.a[2],
                             lon |-> targetAlert.o.geometry.o.coordinates.a[1]]]
        /\ NothingToShow(targetAlert) => navigation = NoNavigation

\* the Point (lon -97, lat 35)
C18_Witness ==
    /\ EffectRan /\ TypeIs(targetAlert, S_Point)
    /\ HasPointCoordinates(targetAlert)
    /\ targetAlert.o.geometry.o.coordinates = Arr(<<Whole(-97), Whole(35)>>)
    /\ navigation.t = "flyTo" /\ navigation.zoom = 10
    /\ navigation.center = [lat |-> Whole(35), lon |-> Whole(-97)]

\* C19: for an advisory with a supported geometry type, however malformed
\* the rest of it, classification, ranking and navigation targeting never
\* raise.
C19_NeverRaises ==
    /\ (entry = "getAlertStyle" /\ Eligible(feature)) => style # Raised
    /\ entry = "BalloonMap" => pc # "raised"
    /\ (entry = "MapController" /\ Eligible(targetAlert)) => navigation # Raised

----------------------------------------------------------------------------
(* Selection: the claims *)

\* a reset of the selection is due at this instant
TimerDue == timers # <<>> /\ Head(timers) = 0

\* C20: the selection is reset to none no later than 2000 ms after every
\* call of handleNavigateToAlert, whatever further selections are made, and
\* when no selection has been made for 2000 ms the selection is none; it is
\* an advisory only after a call that no reset has followed yet.
C20_SelectionTransient ==
    entry = "handleNavigateToAlert" =>
        /\ \A k \in 1..Len(calls) :
            /\ calls[k] <= 2000
            /\ calls[k] = 2000 => TimerDue
        /\ selectedAlert # Null => calls # <<>>
        /\ (idle >= 2000 /\ ~TimerDue) => selectedAlert = Null

\* a second advisory selected 1500 ms after the first, both resets pending
C20_Witness ==
    /\ entry = "handleNavigateToAlert"
    /\ calls = <<1500, 0>> /\ timers = <<500, 2000>>
    /\ selectedAlert = sortedAlerts.a[2]

(* Key probing of keyed objects: the claim *)

\* an element that takes the keyed-object branch
IsKeyedObject(el) ==
    /\ ~(IsArray(el) /\ Len(el.a) >= 2)
    /\ el.t \in {"object", "array"}

\* the keys of a probe list under which the element holds a value
PresentKeys(el, keys) ==
    {k \in 1..Len(keys) : Get(el, keys[k]) \notin {Null, Undefined}}

\* the coerced value under the first present key, absent when none is present
FirstPresent(el, keys) ==
    IF PresentKeys(el, keys) = {} THEN Null
    ELSE safeNumber(Get(el, keys[CHOOSE k \in PresentKeys(el, keys) :
                                    \A j \in PresentKeys(el, keys) : k <= j]))

\* C23: for a keyed object each coordinate is the coercion of the value under
\* the first present key of its probe list (lat, latitude, y, 0 / lon, lng,
\* longitude, 1 / alt, altitude, z, 2); null and undefined count as not
\* present, and a present but unparseable value makes the coordinate absent
\* without falling back to a later key, so the element is skipped.
C23_FirstPresentKeyWins ==
    ExtractDone =>
        \A n \in 1..Len(RawSequence(data)) :
            LET el == RawSequence(data)[n]
                lat == FirstPresent(el, <<"lat", "latitude", "y", "0">>)
                lon == FirstPresent(el, <<"lon", "lng", "longitude", "1">>)
                alt == FirstPresent(el, <<"alt", "altitude", "z", "2">>)
            IN  IsKeyedObject(el) =>
                    /\ Produced(positions, hourIndex, n - 1)
                        <=> (WithinRange(lat, -90, 90)
                             /\ WithinRange(lon, -180, 180))
                    /\ Produced(positions, hourIndex, n - 1) =>
                        LET p == PositionOf(positions, hourIndex, n - 1)
                        IN  /\ p.lat = lat /\ p.lon = lon
                            /\ p.altitude
                                = (IF alt = Null THEN Undefined ELSE alt)

\* an object whose lat and lng are null or undefined is read through y and
\* longitude, and its altitude through z
C23_Witness ==
    /\ ExtractDone
    /\ RawSequence(data)
        = <<Obj([lat |-> Undefined, y |-> Whole(3), lng |-> Null,
                 longitude |-> Whole(4), alt |-> Null, z |-> Whole(9)])>>
    /\ Len(positions) = 1
    /\ positions[1].lat = Whole(3) /\ positions[1].lon = Whole(4)
    /\ positions[1].altitude = Whole(9)

----------------------------------------------------------------------------
(* Selection windows and the two color derivations: the claims *)

\* the reset timer of the most recent selection has time left to run
WindowOpen == timers # <<>> /\ timers[Len(timers)] > 0

\* C24: while the 2000 ms window of the most recent selection is open, the
\* selection is not none: the firing of an earlier selection's timer does
\* not reset it.
C24_WindowNotCutShort ==
    entry = "handleNavigateToAlert" =>
        (WindowOpen => selectedAlert # Null)

\* the tier a display color stands for
ColorTier(c) ==
    IF c = DARK_RED THEN 0
    ELSE IF c = ORANGE THEN 1
    ELSE IF c = YELLOW THEN 2
    ELSE IF c = GREEN THEN 3
    ELSE 4

\* C26: for every advisory of the ranked list, the color of its list row
\* equals the color it is drawn with on the map, and the tiers of the drawn
\* colors never decrease along the list.
C26_ColorsAgree ==
    RenderDone =>
        /\ \A i \in 1..Len(sortedAlerts.a) :
            rows.a[i] = getAlertStyle(sortedAlerts.a[i]).color
        /\ \A i \in 1..Len(sortedAlerts.a) :
            \A j \in (i + 1)..Len(sortedAlerts.a) :
                ColorTier(getAlertStyle(sortedAlerts.a[i]).color)
                    <= ColorTier(getAlertStyle(sortedAlerts.a[j]).color)

----------------------------------------------------------------------------
(* The refresh hooks: the claims *)

\* C21: a position refresh that is in flight when the view owning
\* useBalloonData is torn down writes neither data24h nor loading when its
\* fetch settles, whatever the order of teardown and settlement.
C21_NoPositionWriteAfterTeardown ==
    entry = "useBalloonData" =>
        \A k \in 1..Len(journal) : ~journal[k].unmounted

\* the calls of load() that have written state
Writers == {journal[k].load : k \in 1..Len(journal)}

\* C22: once the view owning useAlertData is torn down, a refresh in flight
\* writes neither alerts nor loadingAlerts when its fetch resolves or fails,
\* and the interval timer starts no refresh.
C22_NoAlertWriteAfterTeardown ==
    entry = "useAlertData" =>
        /\ \A k \in 1..Len(journal) : ~journal[k].unmounted
        /\ \A i \in 1..Len(loads) : ~loads[i].unmounted
        /\ pc = "unmounted" => intervalRef = 0

\* torn down with two refreshes in flight; both have settled since, one
\* of them on a network failure, and loadingAlerts is still true
C22_Witness ==
    /\ entry = "useAlertData" /\ pc = "unmounted"
    /\ Len(loads) = 2 /\ InFlight = {} /\ Writers = {}
    /\ loadingAlerts = TRUE /\ alerts = Arr(<<>>)

\* C25: whatever the advisory fetch returns, the alerts held by
\* useAlertData are an array, and the render of BalloonMap with them does
\* not raise.
C25_AlertsAlwaysArray ==
    entry = "useAlertData" => IsArray(alerts) /\ pc # "raised"

\* the loading flag of the hook under way
LoadingFlag == IF entry = "useBalloonData" THEN loading ELSE loadingAlerts

\* C27: with the view in place and the interval unchanged, once every
\* refresh has completed the state holds the result of the refresh started
\* last, and the loading flag is false only when no refresh is in flight.
C27_LastStartedWins ==
    (entry \in {"useBalloonData", "useAlertData"}
     /\ pc = "active" /\ instance = 1) =>
        /\ InFlight = {} => holder = Len(loads)
        /\ LoadingFlag = FALSE => InFlight = {}

\* C28: a refresh started by an effect instance of useAlertData that has
\* been cleaned up since never writes alerts or loadingAlerts, even when the
\* effect has run again and set the mounted flag back to true.
C28_GuardPerEffectInstance ==
    entry = "useAlertData" =>
        \A k \in 1..Len(journal) : ~journal[k].stale

====
